---- MODULE Spec2Model ----
(***************************************************************************)
(* Senior Care Cost Planner (shaneb74/cca): the valuation engine of        *)
(* src/streamlit_app.py (compute_results) and the Streamlit session that   *)
(* drives it.                                                              *)
(*                                                                         *)
(* Representation.                                                         *)
(*  - A Python float holding money is an integer number of mills           *)
(*    (1 mill = 0.001 dollar = 0.1 cent), so that money(), which rounds    *)
(*    half-up to the cent, is a real conversion and not the identity.      *)
(*    Arithmetic is exact (binary floating-point error is not modelled).   *)
(*  - A multiplier (state multiplier, memory-care multiplier) is a ratio   *)
(*    [n |-> numerator, d |-> denominator].                                *)
(*  - A dict is a function whose DOMAIN is the set of keys present.        *)
(*  - A VA category string is the sequence of its words, so that Python's  *)
(*    substring test ("Veteran only" in cat) and str.split(" (") are       *)
(*    computed and not tabulated.                                          *)
(***************************************************************************)
EXTENDS Integers, Sequences, FiniteSets, TLC

VARIABLES
    inputs,     \* st.session_state.inputs: the AnswerMap
    spec,       \* the RateConfiguration returned by load_spec
    session,    \* st.session_state: the VA category / override entries
    results,    \* the ResultRecord of the latest compute_results call
    frame,      \* the local variables of that call at its return
    download    \* the plan file the user saved from the sidebar, if any

vars == <<inputs, spec, session, results, frame, download>>

----------------------------------------------------------------------------
(* Python values *)

\* Python's None where a string is expected (dict.get without a default).
PyNone == "<None>"

\* An Optional[int]: None is the empty sequence, a value v is <<v>>.
None == <<>>

Some(v) == <<v>>

EmptyMap == [k \in {} |-> 0]

\* dict.get(k, d)
Get(m, k, d) == IF k \in DOMAIN m THEN m[k] ELSE d

\* bool(x) of a string or None
TruthyStr(s) == s \notin {PyNone, ""}

Abs(x) == IF x < 0 THEN -x ELSE x

Max(a, b) == IF a >= b THEN a ELSE b

Min(a, b) == IF a <= b THEN a ELSE b

\* One dollar amount, in mills.
Dollars(n) == n * 1000

\* money(num/den), num/den in mills, den > 0: Decimal(...).quantize(0.01, ROUND_HALF_UP).
\* ROUND_HALF_UP rounds a tie away from zero.  The result is in mills (a multiple of 10).
MoneyQ(num, den) ==
    LET a == Abs(num)
        D == 10 * den
        q == a \div D
        r == a % D
        c == IF 2 * r >= D THEN q + 1 ELSE q
    IN  IF num < 0 THEN -(c * 10) ELSE c * 10

\* money(x), x an integer number of mills
money(x) == MoneyQ(x, 1)

RECURSIVE SumKeys(_, _)
\* sum(float(inputs.get(k, 0.0)) for k in keys)
SumKeys(m, keys) ==
    IF keys = <<>> THEN 0 ELSE Get(m, Head(keys), 0) + SumKeys(m, Tail(keys))

----------------------------------------------------------------------------
(* Strings as word sequences *)

\* pat in s  (Python substring test, on words)
Contains(pat, s) ==
    \E i \in 1..(Len(s) - Len(pat) + 1) : SubSeq(s, i, i + Len(pat) - 1) = pat

\* The words that begin with "(": where str.split(" (") cuts.
ParenWords == {"(A&A)", "(household ceiling)"}

\* s.split(" (")[0]
BeforeParen(s) ==
    LET cut == {i \in 1..Len(s) : s[i] \in ParenWords}
    IN  IF cut = {} THEN s
        ELSE SubSeq(s, 1, (CHOOSE i \in cut : \A j \in cut : i <= j) - 1)

CatNone == <<"None">>

CatVetOnly == <<"Veteran", "only", "(A&A)">>

CatVetSpouse == <<"Veteran", "with", "spouse", "(A&A)">>

CatTwoVets == <<"Two", "veterans", "married", ",", "both", "A&A", "(household ceiling)">>

CatSurviving == <<"Surviving", "spouse", "(A&A)">>

CatSurvivingChild == <<"Surviving", "spouse", "+", "1", "child", "(A&A)">>

\* Built-in VA category monthly presets, in mills.
DEFAULT_VA_CATEGORIES ==
    (CatNone :> 0) @@ (CatVetOnly :> 2358330) @@ (CatVetSpouse :> 2795670)
    @@ (CatTwoVets :> 3740500) @@ (CatSurviving :> 1515580)
    @@ (CatSurvivingChild :> 1808000)

PatTwoVets == <<"Two", "veterans", "married">>

PatVetSpouse == <<"Veteran", "with", "spouse">>

PatVetOnly == <<"Veteran", "only">>

PatSurvivingChild == <<"Surviving", "spouse", "+", "1", "child">>

PatSurviving == <<"Surviving", "spouse">>

----------------------------------------------------------------------------
(* The RateConfiguration *)

One == [n |-> 1, d |-> 1]

\* float(settings.get("memory_care_multiplier", 1.25))
mem_mult(spec_) ==
    Get(Get(spec_, "settings", EmptyMap), "memory_care_multiplier", [n |-> 5, d |-> 4])

\* float(settings.get("second_person_cost", 1200.0))
second_person_discount(spec_) ==
    Get(Get(spec_, "settings", EmptyMap), "second_person_cost", Dollars(1200))

DefaultYearsCap == 30

\* int(settings.get("display_cap_years_funded", 30))
years_cap(spec_) ==
    Get(Get(spec_, "settings", EmptyMap), "display_cap_years_funded", DefaultYearsCap)

\* float(settings.get("ltc_monthly_add", 1800.0))
ltc_monthly_add(spec_) ==
    Get(Get(spec_, "settings", EmptyMap), "ltc_monthly_add", Dollars(1800))

\* lookups.get(name, {})
lookup(spec_, name) == Get(Get(spec_, "lookups", EmptyMap), name, EmptyMap)

\* float(lookups.get("state_multipliers", {"National": 1.0}).get(state, 1.0))
state_mult(inputs_, spec_) ==
    Get(Get(Get(spec_, "lookups", EmptyMap), "state_multipliers", ("National" :> One)),
        Get(inputs_, "state", "National"), One)

\* The tail of load_spec: seed lookups.va_categories with the built-in
\* presets when the file gives none (not a dict, or an empty one).
load_spec(raw) ==
    LET lookups == Get(raw, "lookups", EmptyMap)
        vac     == Get(lookups, "va_categories", EmptyMap)
        seeded  == IF DOMAIN vac = {}
                     THEN ("va_categories" :> DEFAULT_VA_CATEGORIES) @@ lookups
                     ELSE lookups
    IN  ("lookups" :> seeded) @@ raw

----------------------------------------------------------------------------
(* compute_results: care cost *)

InHomeCare == "In-Home Care (professional staff such as nurses, CNAs, or aides)"

AssistedLiving == "Assisted Living (or Adult Family Home)"

MemoryCare == "Memory Care"

StayAtHome == "Stay at Home (no paid care)"

\* care_type.startswith("In-Home Care"), over the care-type strings of the model
StartsWithInHomeCare(care_type) == care_type \in {InHomeCare, "In-Home Care"}

FacilityTypes == {AssistedLiving, MemoryCare}

\* Mutant of interp_in_home_daily: a step function, the sample of the
\* nearest lower key with no interpolation towards the upper one.
interp_in_home_daily_step(hours_val, in_home_matrix) ==
    LET keys == DOMAIN in_home_matrix
        below == {k \in keys : k <= hours_val}
        lo == IF below = {} THEN CHOOSE x \in keys : \A y \in keys : x <= y
              ELSE CHOOSE x \in below : \A y \in below : x >= y
    IN  IF keys = {} THEN [n |-> 0, d |-> 1] ELSE [n |-> in_home_matrix[lo], d |-> 1]

\* interp_in_home_daily(hours_val): the daily rate as a ratio of mills
interp_in_home_daily(hours_val, in_home_matrix) ==
    LET keys == DOMAIN in_home_matrix
        MinOf(S) == CHOOSE x \in S : \A y \in S : x <= y
        MaxOf(S) == CHOOSE x \in S : \A y \in S : x >= y
        below == {k \in keys : k <= hours_val}
        above == {k \in keys : k >= hours_val}
        lo == IF below = {} THEN MinOf(keys) ELSE MaxOf(below)
        hi == IF above = {} THEN MaxOf(keys) ELSE MinOf(above)
    IN  IF keys = {} THEN [n |-> 0, d |-> 1]
        ELSE IF hours_val \in keys THEN [n |-> in_home_matrix[hours_val], d |-> 1]
        ELSE IF lo = hi THEN [n |-> in_home_matrix[lo], d |-> 1]
        ELSE [n |-> in_home_matrix[lo] * (hi - lo)
                    + (hours_val - lo) * (in_home_matrix[hi] - in_home_matrix[lo]),
              d |-> hi - lo]

\* max(0, min(hi, int(inputs.get(key, dflt) or dflt)))
ClampedIntAnswer(inputs_, key, dflt, hi) ==
    LET raw == Get(inputs_, key, dflt)
        v   == IF raw = 0 THEN dflt ELSE raw
    IN  Max(0, Min(hi, v))

\* Mutant of per_person_cost: the memory-care multiplier is applied to every
\* facility stay, Assisted Living included.
per_person_cost_every_facility(tag_letter, inputs_, spec_) ==
    LET care_type == Get(inputs_, "care_type_person_" \o tag_letter, PyNone)
        level     == Get(inputs_, "care_level_person_" \o tag_letter, "Medium")
        mobility  == Get(inputs_, "mobility_person_" \o tag_letter, "Medium")
        chronic   == Get(inputs_, "chronic_person_" \o tag_letter, "None")
        sm == state_mult(inputs_, spec_)
        mm == mem_mult(spec_)
        base == Get(lookup(spec_, "room_type"),
                    Get(inputs_, "room_type_person_" \o tag_letter, PyNone), 0)
                + Get(lookup(spec_, "care_level_adders"), level, 0)
                + Get(Get(lookup(spec_, "mobility_adders"), "facility", EmptyMap), mobility, 0)
                + Get(lookup(spec_, "chronic_adders"), chronic, 0)
    IN  IF care_type \in FacilityTypes
          THEN MoneyQ(base * mm.n * sm.n, mm.d * sm.d)
        ELSE 0

\* per_person_cost(tag_letter)
per_person_cost(tag_letter, inputs_, spec_) ==
    LET care_type == Get(inputs_, "care_type_person_" \o tag_letter, PyNone)
        level     == Get(inputs_, "care_level_person_" \o tag_letter, "Medium")
        mobility  == Get(inputs_, "mobility_person_" \o tag_letter, "Medium")
        chronic   == Get(inputs_, "chronic_person_" \o tag_letter, "None")
        level_add   == Get(lookup(spec_, "care_level_adders"), level, 0)
        chronic_add == Get(lookup(spec_, "chronic_adders"), chronic, 0)
        sm == state_mult(inputs_, spec_)
        mm == mem_mult(spec_)
        hours == ClampedIntAnswer(inputs_, "hours_per_day_person_" \o tag_letter, 4, 24)
        days  == ClampedIntAnswer(inputs_, "days_per_month_person_" \o tag_letter, 20, 31)
        daily == interp_in_home_daily(hours, lookup(spec_, "in_home_care_matrix"))
        mob_home == Get(Get(lookup(spec_, "mobility_adders"), "in_home", EmptyMap), mobility, 0)
        room == Get(inputs_, "room_type_person_" \o tag_letter, PyNone)
        base_room == Get(lookup(spec_, "room_type"), room, 0)
        mob_fac == Get(Get(lookup(spec_, "mobility_adders"), "facility", EmptyMap), mobility, 0)
        base == base_room + level_add + mob_fac + chronic_add
    IN  IF TruthyStr(care_type) /\ StartsWithInHomeCare(care_type)
          THEN MoneyQ((daily.n + (mob_home + chronic_add) * daily.d) * days * sm.n,
                      daily.d * sm.d)
        ELSE IF care_type \in FacilityTypes
          THEN IF care_type = MemoryCare
                 THEN MoneyQ(base * mm.n * sm.n, mm.d * sm.d)
                 ELSE MoneyQ(base * sm.n, sm.d)
        ELSE 0

\* shared_unit_discount()
shared_unit_discount(inputs_, spec_) ==
    LET a_type == Get(inputs_, "care_type_person_a", PyNone)
        b_type == Get(inputs_, "care_type_person_b", PyNone)
        sm == state_mult(inputs_, spec_)
    IN  IF ~(TruthyStr(a_type) /\ TruthyStr(b_type)) THEN 0
        ELSE IF a_type \in FacilityTypes /\ b_type \in FacilityTypes
          THEN MoneyQ(second_person_discount(spec_) * sm.n, sm.d)
        ELSE 0

\* care_cost = per_person_cost("a") + per_person_cost("b") - shared_unit_discount()
care_cost(inputs_, spec_) ==
    per_person_cost("a", inputs_, spec_) + per_person_cost("b", inputs_, spec_)
    - shared_unit_discount(inputs_, spec_)

----------------------------------------------------------------------------
(* compute_results: household costs *)

HomeFields == <<"mortgage", "taxes", "insurance", "hoa", "utilities">>

\* Mutant of home_sum: the five home-carry answers are summed whether or
\* not the household keeps the home.
home_sum_unconditional(inputs_) == money(SumKeys(inputs_, HomeFields))

\* home_sum
home_sum(inputs_) ==
    IF Get(inputs_, "maintain_home_household", FALSE)
      THEN money(SumKeys(inputs_, HomeFields))
      ELSE money(0)

optional_fields ==
    <<"medicare_premiums", "dental_vision_hearing", "home_modifications_monthly",
      "other_debts_monthly", "pet_care", "entertainment_hobbies", "optional_rx",
      "optional_personal_care", "optional_phone_internet", "optional_life_insurance",
      "optional_transportation", "optional_family_travel", "optional_auto",
      "optional_auto_insurance", "optional_other", "heloc_payment_monthly">>

\* optional_sum
optional_sum(inputs_) == money(SumKeys(inputs_, optional_fields))

----------------------------------------------------------------------------
(* compute_results: the VA rules *)

\* Mutant of mapr_from_categories: each person's ceiling is looked up and
\* the two are added.
mapr_from_categories_summed(cat_a, cat_b, va_categories) ==
    LET one(cat) ==
            IF Contains(PatTwoVets, cat)
              THEN Get(DEFAULT_VA_CATEGORIES, CatTwoVets, 0) * 12
            ELSE IF Contains(PatVetSpouse, cat)
              THEN Get(va_categories, CatVetSpouse, DEFAULT_VA_CATEGORIES[CatVetSpouse]) * 12
            ELSE IF Contains(PatVetOnly, cat)
              THEN Get(va_categories, CatVetOnly, DEFAULT_VA_CATEGORIES[CatVetOnly]) * 12
            ELSE IF Contains(PatSurvivingChild, cat)
              THEN Get(va_categories, CatSurvivingChild, DEFAULT_VA_CATEGORIES[CatSurvivingChild]) * 12
            ELSE IF Contains(PatSurviving, cat)
              THEN Get(va_categories, CatSurviving, DEFAULT_VA_CATEGORIES[CatSurviving]) * 12
            ELSE 0
    IN  one(cat_a) + one(cat_b)

\* Mutant of mapr_from_categories: a household that matches no category
\* falls through to the "Veteran only" ceiling, not to 0.
mapr_from_categories_fallthrough(cat_a, cat_b, va_categories) ==
    IF Contains(PatTwoVets, cat_a) \/ Contains(PatTwoVets, cat_b)
      THEN Get(DEFAULT_VA_CATEGORIES, CatTwoVets, 0) * 12
    ELSE IF Contains(PatVetSpouse, cat_a) \/ Contains(PatVetSpouse, cat_b)
      THEN Get(va_categories, CatVetSpouse, DEFAULT_VA_CATEGORIES[CatVetSpouse]) * 12
    ELSE IF Contains(PatSurvivingChild, cat_a) \/ Contains(PatSurvivingChild, cat_b)
      THEN Get(va_categories, CatSurvivingChild, DEFAULT_VA_CATEGORIES[CatSurvivingChild]) * 12
    ELSE IF Contains(PatSurviving, cat_a) \/ Contains(PatSurviving, cat_b)
      THEN Get(va_categories, CatSurviving, DEFAULT_VA_CATEGORIES[CatSurviving]) * 12
    ELSE Get(va_categories, CatVetOnly, DEFAULT_VA_CATEGORIES[CatVetOnly]) * 12

\* mapr_from_categories(cat_a, cat_b): the household MAPR, annual
mapr_from_categories(cat_a, cat_b, va_categories) ==
    IF Contains(PatTwoVets, cat_a) \/ Contains(PatTwoVets, cat_b)
      THEN Get(DEFAULT_VA_CATEGORIES, CatTwoVets, 0) * 12
    ELSE IF Contains(PatVetSpouse, cat_a) \/ Contains(PatVetSpouse, cat_b)
      THEN Get(va_categories, CatVetSpouse, DEFAULT_VA_CATEGORIES[CatVetSpouse]) * 12
    ELSE IF Contains(PatVetOnly, cat_a) \/ Contains(PatVetOnly, cat_b)
      THEN Get(va_categories, CatVetOnly, DEFAULT_VA_CATEGORIES[CatVetOnly]) * 12
    ELSE IF Contains(PatSurvivingChild, cat_a) \/ Contains(PatSurvivingChild, cat_b)
      THEN Get(va_categories, CatSurvivingChild, DEFAULT_VA_CATEGORIES[CatSurvivingChild]) * 12
    ELSE IF Contains(PatSurviving, cat_a) \/ Contains(PatSurviving, cat_b)
      THEN Get(va_categories, CatSurviving, DEFAULT_VA_CATEGORIES[CatSurviving]) * 12
    ELSE 0

CountableIncomeFields ==
    <<"social_security_person_a", "pension_person_a", "social_security_person_b",
      "pension_person_b", "disability_income", "rental_income", "dividends_interest",
      "wages_part_time", "other_income_monthly">>

\* monthly_income_countable
monthly_income_countable(inputs_) == SumKeys(inputs_, CountableIncomeFields)

DeductibleMedicalFields ==
    <<"medicare_premiums", "dental_vision_hearing", "optional_rx", "optional_personal_care">>

\* monthly_deductible_medical
monthly_deductible_medical(inputs_, spec_) ==
    money(care_cost(inputs_, spec_) + SumKeys(inputs_, DeductibleMedicalFields))

\* Mutant of va_award_annual: the inner max(0.0, ...) is dropped.
va_award_annual_no_inner_max(household_mapr_annual, countable_income_annual, deductible_medical_annual) ==
    Max(0, household_mapr_annual - (countable_income_annual - deductible_medical_annual))

\* Mutant of va_award_annual: the distance between income and medical is
\* subtracted, whichever is larger.
va_award_annual_abs(household_mapr_annual, countable_income_annual, deductible_medical_annual) ==
    Max(0, household_mapr_annual - Abs(countable_income_annual - deductible_medical_annual))

\* va_award_annual = max(0.0, household_mapr_annual
\*                            - max(0.0, countable_income_annual - deductible_medical_annual))
va_award_annual(household_mapr_annual, countable_income_annual, deductible_medical_annual) ==
    Max(0, household_mapr_annual
           - Max(0, countable_income_annual - deductible_medical_annual))

\* Mutant of va_assign: in the "Two veterans married" case each person is
\* given the whole monthly award.
va_assign_whole_to_both(cat_a, cat_b, va_award_monthly, manual_a, manual_b) ==
    IF manual_a # None \/ manual_b # None
      THEN <<money(IF manual_a = None THEN 0 ELSE manual_a[1]),
             money(IF manual_b = None THEN 0 ELSE manual_b[1])>>
    ELSE IF Contains(PatTwoVets, cat_a) \/ Contains(PatTwoVets, cat_b)
      THEN <<money(va_award_monthly), money(va_award_monthly)>>
    ELSE IF Contains(PatVetSpouse, cat_a) \/ Contains(PatVetOnly, cat_a)
      THEN <<money(va_award_monthly), 0>>
    ELSE IF Contains(PatVetSpouse, cat_b) \/ Contains(PatVetOnly, cat_b)
      THEN <<0, money(va_award_monthly)>>
    ELSE IF Contains(PatSurviving, cat_a)
      THEN <<money(va_award_monthly), 0>>
    ELSE IF Contains(PatSurviving, cat_b)
      THEN <<0, money(va_award_monthly)>>
    ELSE <<0, 0>>

\* The assignment of the award to the two persons: <<va_a, va_b>>.
\* manual_a, manual_b are None or Some(amount).
va_assign(cat_a, cat_b, va_award_monthly, manual_a, manual_b) ==
    IF manual_a # None \/ manual_b # None
      THEN <<money(IF manual_a = None THEN 0 ELSE manual_a[1]),
             money(IF manual_b = None THEN 0 ELSE manual_b[1])>>
    ELSE IF Contains(PatTwoVets, cat_a) \/ Contains(PatTwoVets, cat_b)
      THEN <<MoneyQ(va_award_monthly, 2), MoneyQ(va_award_monthly, 2)>>
    ELSE IF Contains(PatVetSpouse, cat_a) \/ Contains(PatVetOnly, cat_a)
      THEN <<money(va_award_monthly), 0>>
    ELSE IF Contains(PatVetSpouse, cat_b) \/ Contains(PatVetOnly, cat_b)
      THEN <<0, money(va_award_monthly)>>
    ELSE IF Contains(PatSurviving, cat_a)
      THEN <<money(va_award_monthly), 0>>
    ELSE IF Contains(PatSurviving, cat_b)
      THEN <<0, money(va_award_monthly)>>
    ELSE <<0, 0>>

----------------------------------------------------------------------------
(* compute_results: income, assets, gap and runway *)

\* str(v).lower() in {"yes", "true", "1"}, over the answers of the model
IsYes(v) == v \in {"Yes", "yes", "YES", "True", "true", "1"}

\* ltc_total
ltc_total(inputs_, spec_) ==
    (IF IsYes(Get(inputs_, "ltc_insurance_person_a", "No")) THEN ltc_monthly_add(spec_) ELSE 0)
    + (IF IsYes(Get(inputs_, "ltc_insurance_person_b", "No")) THEN ltc_monthly_add(spec_) ELSE 0)

DrawFields == <<"hecm_draw_monthly", "heloc_draw_monthly", "re_investment_income">>

\* household_income
household_income(inputs_, spec_, va_a, va_b) ==
    money(SumKeys(inputs_, CountableIncomeFields) + va_a + va_b
          + SumKeys(inputs_, DrawFields) + ltc_total(inputs_, spec_))

AssetFields ==
    <<"home_equity", "other_assets", "cash_savings", "ira_total",
      "employer_retirement_total", "brokerage_taxable", "other_assets_grouped">>

\* total_assets
total_assets(inputs_) == money(SumKeys(inputs_, AssetFields))

\* Mutant of monthly_cost: the home-carry amount is left out of the total.
monthly_cost_without_home(care_cost_, optional_sum_, home_sum_) ==
    money(care_cost_ + optional_sum_)

\* monthly_cost = money(care_cost + optional_sum + home_sum)
monthly_cost(care_cost_, optional_sum_, home_sum_) ==
    money(care_cost_ + optional_sum_ + home_sum_)

\* gap = money(monthly_cost - household_income)
monthly_gap(monthly_cost_, household_income_) == money(monthly_cost_ - household_income_)

\* Mutant of years_funded: min(years, years_cap) is left out.
years_funded_uncapped(total_assets_, gap, years_cap_) ==
    IF gap > 0 /\ total_assets_ > 0
      THEN Some(total_assets_ \div (gap * 12))
      ELSE None

\* years: None, or int((total_assets / gap) / 12) capped at years_cap
years_funded(total_assets_, gap, years_cap_) ==
    IF gap > 0 /\ total_assets_ > 0
      THEN Some(Min(total_assets_ \div (gap * 12), years_cap_))
      ELSE None

\* Answers of a plan file that float() rejects: None (TypeError) and a
\* string that is not a number (ValueError).
Unparseable == {PyNone, "n/a"}

\* The dynamic type test Python makes inside float(); the value's printed
\* form tells a bad answer from a number.
float_raises(v) == ToString(v) \in {ToString(u) : u \in Unparseable}

\* int(v or dflt) raises: a truthy string that is not a number.
int_raises(v) == ToString(v) = ToString("n/a")

\* A truthy JSON number where a string is expected: care_type.startswith
\* raises AttributeError.
startswith_raises(v) == ToString(v) \in {ToString(n) : n \in 1..9}

SetOf(seq) == {seq[i] : i \in 1..Len(seq)}

\* The keys compute_results passes to float().
FloatKeys(inputs_, session_) ==
    (IF Get(inputs_, "maintain_home_household", FALSE) THEN SetOf(HomeFields) ELSE {})
    \cup SetOf(optional_fields) \cup SetOf(CountableIncomeFields)
    \cup SetOf(DeductibleMedicalFields) \cup SetOf(DrawFields) \cup SetOf(AssetFields)
    \cup {"home_mods_one_time_total"}
    \cup {"va_benefit_person_" \o p : p \in {q \in {"a", "b"} :
                                            Get(session_, "va_override_person_" \o q, FALSE)}}

\* compute_results(inputs, spec) raises instead of returning.
compute_results_raises(inputs_, spec_, session_) ==
    \/ \E k \in FloatKeys(inputs_, session_) \cap DOMAIN inputs_ : float_raises(inputs_[k])
    \/ \E p \in {"a", "b"} :
          LET care_type == Get(inputs_, "care_type_person_" \o p, PyNone)
          IN  \/ startswith_raises(care_type)
              \/ /\ TruthyStr(care_type)
                 /\ StartsWithInHomeCare(care_type)
                 /\ \/ int_raises(Get(inputs_, "hours_per_day_person_" \o p, 4))
                    \/ int_raises(Get(inputs_, "days_per_month_person_" \o p, 20))

\* Mutant of args_at_return: per_person_cost stores the defaults it read
\* back into inputs (dict.setdefault in place of dict.get).
args_at_return_setdefault(inputs_, spec_) ==
    <<inputs_ @@ ("care_level_person_a" :> "Medium") @@ ("care_level_person_b" :> "Medium"),
      spec_>>

\* The two argument dicts when compute_results returns: the function only
\* reads them (.get, .items, in); no statement assigns into either.
args_at_return(inputs_, spec_) == <<inputs_, spec_>>

\* The local variables of compute_results(inputs, spec) at its return;
\* session_ is st.session_state, which the function reads.
compute_results_locals(inputs_, spec_, session_) ==
    LET cat_a == Get(session_, "va_category_person_a", CatNone)
        cat_b == Get(session_, "va_category_person_b", CatNone)
        cost_a == per_person_cost("a", inputs_, spec_)
        cost_b == per_person_cost("b", inputs_, spec_)
        discount == shared_unit_discount(inputs_, spec_)
        care == care_cost(inputs_, spec_)
        home == home_sum(inputs_)
        optional == optional_sum(inputs_)
        mapr == mapr_from_categories(cat_a, cat_b, lookup(spec_, "va_categories"))
        ci == monthly_income_countable(inputs_) * 12
        dm == monthly_deductible_medical(inputs_, spec_) * 12
        award == va_award_annual(mapr, ci, dm)
        award_monthly == MoneyQ(award, 12)
        override_a == Get(session_, "va_override_person_a", FALSE)
        override_b == Get(session_, "va_override_person_b", FALSE)
        manual_a == IF override_a THEN Some(Get(inputs_, "va_benefit_person_a", 0)) ELSE None
        manual_b == IF override_b THEN Some(Get(inputs_, "va_benefit_person_b", 0)) ELSE None
        va == va_assign(cat_a, cat_b, award_monthly, manual_a, manual_b)
        income == household_income(inputs_, spec_, va[1], va[2])
        cost == monthly_cost(care, optional, home)
        assets == total_assets(inputs_)
        gap == monthly_gap(cost, income)
    IN  [ raised |-> FALSE,
          inputs |-> args_at_return(inputs_, spec_)[1],
          spec |-> args_at_return(inputs_, spec_)[2],
          cat_a |-> cat_a, cat_b |-> cat_b,
          cost_a |-> cost_a, cost_b |-> cost_b, discount |-> discount,
          care_cost |-> care, home_sum |-> home, optional_sum |-> optional,
          household_mapr_annual |-> mapr,
          countable_income_annual |-> ci,
          deductible_medical_annual |-> dm,
          va_award_annual |-> award, va_award_monthly |-> award_monthly,
          override_a |-> override_a, override_b |-> override_b,
          va_a |-> va[1], va_b |-> va[2],
          household_income |-> income, monthly_cost |-> cost,
          total_assets |-> assets, gap |-> gap,
          years_cap |-> years_cap(spec_),
          years |-> years_funded(assets, gap, years_cap(spec_)) ]

\* The dict compute_results returns.
ResultOf(f) ==
    [ care_cost |-> money(f.care_cost),
      home_sum |-> f.home_sum,
      optional_sum |-> f.optional_sum,
      monthly_cost |-> f.monthly_cost,
      household_income |-> f.household_income,
      monthly_gap |-> f.gap,
      total_assets |-> f.total_assets,
      years_funded_cap30 |-> f.years,
      home_mods_one_time_total |-> f.home_mods,
      va_a |-> f.va_a,
      va_b |-> f.va_b,
      va_household_mapr_monthly |-> MoneyQ(f.household_mapr_annual, 12) ]

\* compute_results(inputs, spec)
compute_results(inputs_, spec_, session_) ==
    ResultOf([home_mods |-> money(Get(inputs_, "home_mods_one_time_total", 0))]
             @@ compute_results_locals(inputs_, spec_, session_))

----------------------------------------------------------------------------
(* The rate file: an example configuration (the JSON file is not part of   *)
(* the sources; its shape is the one compute_results reads).               *)

BaseLookups ==
    [ state_multipliers |-> ("National" :> One) @@ ("Washington" :> [n |-> 23, d |-> 20]),
      room_type |-> ("Studio" :> Dollars(4000)) @@ ("1 Bedroom" :> Dollars(5000))
                    @@ ("Shared" :> Dollars(3000)),
      care_level_adders |-> ("Low" :> 0) @@ ("Medium" :> Dollars(500)) @@ ("High" :> Dollars(1000)),
      mobility_adders |->
          [ facility |-> ("Low" :> 0) @@ ("Medium" :> Dollars(250)) @@ ("High" :> Dollars(500)),
            in_home  |-> ("Low" :> 0) @@ ("Medium" :> Dollars(10)) @@ ("High" :> Dollars(20)) ],
      chronic_adders |-> ("None" :> 0) @@ ("Some" :> Dollars(20)) @@ ("Multiple/Complex" :> Dollars(40)),
      in_home_care_matrix |-> (2 :> Dollars(20)) @@ (4 :> Dollars(36)) @@ (8 :> Dollars(60))
                              @@ (24 :> Dollars(120)) ]

\* A rate file that gives its own amount for every VA category.
CustomVaCategories ==
    (CatNone :> 0) @@ (CatVetOnly :> Dollars(2400)) @@ (CatVetSpouse :> Dollars(2800))
    @@ (CatTwoVets :> Dollars(4000)) @@ (CatSurviving :> Dollars(1500))
    @@ (CatSurvivingChild :> Dollars(1900))

\* A rate file that gives amounts for some categories only.
PartialVaCategories == (CatNone :> 0) @@ (CatVetOnly :> Dollars(2400))

\* What _read_json returns for a rate file with the given va_categories and settings.
RawSpec(vac, settings) ==
    [ settings |-> settings,
      lookups |-> IF DOMAIN vac = {} THEN BaseLookups
                  ELSE ("va_categories" :> vac) @@ BaseLookups ]

----------------------------------------------------------------------------
(* The Streamlit script: one action is one widget interaction followed by  *)
(* the rerun of main(), which ends with compute_results for the sidebar.   *)

\* The rerun's call compute_results(st.session_state.inputs, spec) inside
\* try / except: an exception leaves the sidebar preview empty.
Recompute ==
    /\ spec' = spec
    /\ IF compute_results_raises(inputs', spec', session')
         THEN /\ frame' = [raised |-> TRUE]
              /\ results' = EmptyMap
         ELSE /\ frame' = compute_results_locals(inputs', spec', session')
              /\ results' = ResultOf([home_mods |-> money(Get(inputs', "home_mods_one_time_total", 0))]
                                     @@ frame')

\* A run in which nothing is saved to the user's disk.
Rerun ==
    /\ Recompute
    /\ download' = download

\* The state of a session whose inputs are plan: the empty dict of a new
\* session, or a plan loaded from a file.
Loaded(plan, spec_, session_) ==
    /\ inputs = plan
    /\ spec = spec_
    /\ session = session_
    /\ download = None
    /\ frame = compute_results_locals(plan, spec_, session_)
    /\ results = compute_results(plan, spec_, session_)

Persons == {"a", "b"}

\* Person B's widgets are rendered only when include_b is set.
Rendered(p) == p = "a" \/ Get(session, "include_b", FALSE)

\* The option the VA category selectbox of a person holds: the key whose
\* short form the session keeps, "None" before the first choice.
CurrentVaKey(sess, p) ==
    LET cat  == Get(sess, "va_category_person_" \o p, CatNone)
        keys == {k \in DOMAIN lookup(spec, "va_categories") : BeforeParen(k) = cat}
    IN  IF keys = {} THEN CatNone ELSE CHOOSE k \in keys : TRUE

\* va_block(person_key, ...): one run writes the person's category,
\* sel.split(" (")[0], and the state of the override checkbox.
va_block(sess, p, key, on) ==
    ("va_category_person_" \o p :> BeforeParen(key))
    @@ ("va_override_person_" \o p :> on) @@ sess

\* The VA blocks of one run of step 3: Person A's, and Person B's when
\* include_b is set.
va_blocks(sess, key_a, on_a, key_b, on_b) ==
    LET sa == va_block(sess, "a", key_a, on_a)
    IN  IF Get(sess, "include_b", FALSE) THEN va_block(sa, "b", key_b, on_b) ELSE sa

\* Step 3: the user picks a VA category for a person.  The options are the
\* keys of lookups.va_categories.
SelectVaCategory(p, key) ==
    /\ Rendered(p)
    /\ key \in DOMAIN lookup(spec, "va_categories")
    /\ session' = va_blocks(session,
                            IF p = "a" THEN key ELSE CurrentVaKey(session, "a"),
                            Get(session, "va_override_person_a", FALSE),
                            IF p = "b" THEN key ELSE CurrentVaKey(session, "b"),
                            Get(session, "va_override_person_b", FALSE))
    /\ inputs' = inputs
    /\ Rerun

\* Step 3: the "Override amount manually" checkbox of a person.  When it
\* is on, the amount input is rendered with the stored amount and written back.
SetVaOverride(p, on) ==
    /\ Rendered(p)
    /\ on # Get(session, "va_override_person_" \o p, FALSE)
    /\ session' = va_blocks(session,
                            CurrentVaKey(session, "a"),
                            IF p = "a" THEN on ELSE Get(session, "va_override_person_a", FALSE),
                            CurrentVaKey(session, "b"),
                            IF p = "b" THEN on ELSE Get(session, "va_override_person_b", FALSE))
    /\ inputs' = IF on
                   THEN ("va_benefit_person_" \o p :> Get(inputs, "va_benefit_person_" \o p, 0))
                        @@ inputs
                   ELSE inputs
    /\ Rerun

\* va_block: the manual amount, shown while the override is on (min_value 0).
EnterVaAmount(p, amt) ==
    /\ Rendered(p)
    /\ Get(session, "va_override_person_" \o p, FALSE)
    /\ amt >= 0
    /\ inputs' = ("va_benefit_person_" \o p :> amt) @@ inputs
    /\ session' = session
    /\ Rerun

\* Fields render_group_live skips when Person B is not included (key.endswith("_person_b")).
PersonBFields == {"social_security_person_b", "pension_person_b"}

\* Fields of group_home_carry, skipped unless the home is kept.
HomeCarryFields == {"mortgage", "taxes", "insurance", "hoa", "utilities"}

\* render_group_live: a currency number_input (min_value 0) of a ui group.
SetCurrency(key, val) ==
    /\ val >= 0
    /\ key \in PersonBFields => Rendered("b")
    /\ key \in HomeCarryFields => Get(inputs, "maintain_home_household", FALSE)
    /\ inputs' = (key :> val) @@ inputs
    /\ session' = session
    /\ Rerun

\* list(lookups.room_type.keys()): the rate file's order of the room types
RoomTypeOrder == <<"Studio", "1 Bedroom", "Shared">>

\* Whether the person's level / mobility / chronic selectors were on screen
\* in the run before: a paid care type was selected.
SelectorsShown(inp, p) ==
    Get(inp, "care_type_person_" \o p, PyNone) \notin {PyNone, StayAtHome}

\* render_person(tag_key): what one run of step 2 writes into inputs for a
\* person whose care-type selectbox holds care.  A selector that was on
\* screen keeps its value; one that appears starts at its default.
render_person(inp, p, care) ==
    LET kept(key, dflt) == IF SelectorsShown(inp, p) THEN Get(inp, key \o p, dflt) ELSE dflt
        wasFacility == Get(inp, "care_type_person_" \o p, PyNone) \in FacilityTypes
        head == ("care_type_person_" \o p :> care)
                @@ ("person_" \o p \o "_in_care" :> (care # StayAtHome))
        stay == ("care_level_person_" \o p :> "None") @@ ("mobility_person_" \o p :> "None")
                @@ ("chronic_person_" \o p :> "None")
                @@ ("hours_per_day_person_" \o p :> 0) @@ ("days_per_month_person_" \o p :> 0)
        sliders == ("hours_per_day_person_" \o p
                        :> ClampedIntAnswer(inp, "hours_per_day_person_" \o p, 4, 24))
                   @@ ("days_per_month_person_" \o p
                        :> ClampedIntAnswer(inp, "days_per_month_person_" \o p, 20, 31))
        room == ("room_type_person_" \o p
                    :> IF wasFacility THEN Get(inp, "room_type_person_" \o p, RoomTypeOrder[1])
                       ELSE RoomTypeOrder[1])
        common == ("care_level_person_" \o p :> kept("care_level_person_", "Medium"))
                  @@ ("mobility_person_" \o p :> kept("mobility_person_", "Medium"))
                  @@ ("chronic_person_" \o p :> kept("chronic_person_", "None"))
    IN  IF care = StayAtHome THEN head @@ stay @@ inp
        ELSE IF StartsWithInHomeCare(care) THEN head @@ sliders @@ common @@ inp
        ELSE IF care \in FacilityTypes THEN head @@ room @@ common @@ inp
        ELSE head @@ common @@ inp

\* care_options_for(tag_key): "Stay at Home" is offered to Person B only.
care_options_for(p) ==
    IF p = "a" \/ ~Get(session, "include_b", FALSE)
      THEN {InHomeCare, AssistedLiving, MemoryCare}
      ELSE {StayAtHome, InHomeCare, AssistedLiving, MemoryCare}

\* build_default_index(choices, tag_key): In-Home Care, or Stay at Home for
\* an included Person B in the spouse and second-parent modes.
default_care(p) ==
    IF /\ p = "b"
       /\ Get(session, "include_b", FALSE)
       /\ (Get(session, "audience_spouse_mode", FALSE)
           \/ Get(session, "audience_parent_second_mode", FALSE))
      THEN StayAtHome
      ELSE InHomeCare

\* The option the care-type selectbox of a person holds.
CurrentCare(inp, p) == Get(inp, "care_type_person_" \o p, default_care(p))

\* One run of step 2: render_person for Person A, and for Person B when
\* include_b is set.
step2_run(inp, care_a, care_b) ==
    LET ia == render_person(inp, "a", care_a)
    IN  IF Get(session, "include_b", FALSE) THEN render_person(ia, "b", care_b) ELSE ia

\* Step 2: the care-type selectbox of a person.
SelectCareType(p, care) ==
    /\ Rendered(p)
    /\ care \in care_options_for(p)
    /\ inputs' = step2_run(inputs,
                           IF p = "a" THEN care ELSE CurrentCare(inputs, "a"),
                           IF p = "b" THEN care ELSE CurrentCare(inputs, "b"))
    /\ session' = session
    /\ Rerun

\* Step 2: the room-type selectbox, on screen for a facility care type.
SelectRoomType(p, room) ==
    /\ Rendered(p)
    /\ Get(inputs, "care_type_person_" \o p, PyNone) \in FacilityTypes
    /\ room \in DOMAIN lookup(spec, "room_type")
    /\ inputs' = step2_run(("room_type_person_" \o p :> room) @@ inputs,
                           CurrentCare(inputs, "a"), CurrentCare(inputs, "b"))
    /\ session' = session
    /\ Rerun

----------------------------------------------------------------------------
(* SpecVA: the VA means test.  A plan with income, medical costs and a     *)
(* care plan is loaded; the user works the VA block of step 3.             *)

MaxIncomeSteps == 2

MaxMedicalSteps == 1

\* Monthly income answers: multiples of $2,250.125
IncomeChoices == {k * (Dollars(2250) + 125) : k \in 0..MaxIncomeSteps}

\* Monthly Medicare premium answers: multiples of $1,600.004
MedicalChoices == {k * (Dollars(1600) + 4) : k \in 0..MaxMedicalSteps}

VaPlan(income, medical, care) ==
    ("social_security_person_a" :> income) @@ ("medicare_premiums" :> medical)
    @@ (IF care = PyNone THEN EmptyMap
        ELSE ("care_type_person_a" :> care) @@ ("room_type_person_a" :> "Shared")
             @@ ("care_level_person_a" :> "Low") @@ ("mobility_person_a" :> "Low"))

VaRateFiles == {EmptyMap, CustomVaCategories, PartialVaCategories}

InitVA ==
    \E income \in IncomeChoices, medical \in MedicalChoices,
       care \in {PyNone, AssistedLiving}, vac \in VaRateFiles :
        Loaded(VaPlan(income, medical, care),
               load_spec(RawSpec(vac, EmptyMap)),
               ("include_b" :> TRUE))

NextVA ==
    \/ \E p \in Persons, key \in DOMAIN DEFAULT_VA_CATEGORIES : SelectVaCategory(p, key)
    \/ \E p \in Persons, on \in BOOLEAN : SetVaOverride(p, on)

SpecVA == InitVA /\ [][NextVA]_vars

----------------------------------------------------------------------------
(* Claims about the VA means test (checked under SpecVA) *)

\* The precedence order of the VA categories, as substring patterns.
PrecedenceOrder == <<PatTwoVets, PatVetSpouse, PatVetOnly, PatSurviving>>

\* The place in PrecedenceOrder of the first pattern a declared category
\* matches; Len + 1 ("None") when it matches none.
Rank(cat) ==
    LET hits == {i \in 1..Len(PrecedenceOrder) : Contains(PrecedenceOrder[i], cat)}
    IN  IF hits = {} THEN Len(PrecedenceOrder) + 1
        ELSE CHOOSE i \in hits : \A j \in hits : i <= j

NoCategoryRank == Len(PrecedenceOrder) + 1

WinningRank == Min(Rank(frame.cat_a), Rank(frame.cat_b))

\* The ceiling a household gets when category cat is the only one declared.
CeilingOfOne(cat) == mapr_from_categories(cat, CatNone, lookup(spec, "va_categories"))

\* C1: compute_results is a function of (inputs, spec) only: two consecutive
\* calls with equal inputs and equal spec return identical ResultRecords,
\* whatever else (the session's VA category and override entries) changed
\* in between.
C1_Deterministic == [][(inputs' = inputs /\ spec' = spec) => results' = results]_vars

\* C6: the household ceiling is the ceiling of one declared category, one
\* that matches the first matching class of the precedence order
\* Two veterans married > Veteran with spouse > Veteran only > Surviving
\* spouse > None; it is never the sum of two persons' ceilings, and with no
\* category declared it is 0.
C6_Precedence ==
    LET winners == {c \in {frame.cat_a, frame.cat_b} : Rank(c) = WinningRank}
    IN  /\ frame.household_mapr_annual \in {CeilingOfOne(c) : c \in winners}
        /\ WinningRank = NoCategoryRank => frame.household_mapr_annual = 0
        /\ frame.cat_a = frame.cat_b => frame.household_mapr_annual = CeilingOfOne(frame.cat_a)

\* C6 witness: two different categories are declared, Person B's is the
\* higher in precedence, and the ceiling is B's ceiling alone.
C6_Witness ==
    /\ Rank(frame.cat_b) < Rank(frame.cat_a)
    /\ Rank(frame.cat_a) < NoCategoryRank
    /\ frame.household_mapr_annual = CeilingOfOne(frame.cat_b)
    /\ frame.household_mapr_annual < CeilingOfOne(frame.cat_a) + CeilingOfOne(frame.cat_b)

\* The key of lookups.va_categories of the winning category ("Surviving
\* spouse + 1 child" is the first of the Surviving spouse class).
WinningKey ==
    IF WinningRank = 4
         /\ (Contains(PatSurvivingChild, frame.cat_a) \/ Contains(PatSurvivingChild, frame.cat_b))
      THEN CatSurvivingChild
      ELSE <<CatTwoVets, CatVetSpouse, CatVetOnly, CatSurviving>>[WinningRank]

\* C7: the ceiling is the amount the loaded rate file gives for the winning
\* category; the built-in preset is used only when the file has no entry.
C7_ConfiguredCeiling ==
    WinningRank < NoCategoryRank
    => LET key == WinningKey
           vac == lookup(spec, "va_categories")
       IN  frame.household_mapr_annual
             = 12 * (IF key \in DOMAIN vac THEN vac[key] ELSE DEFAULT_VA_CATEGORIES[key])

\* C8: the annual award is max(0, ceiling - max(0, countable income -
\* deductible medical)), and lies in [0, ceiling].
C8_AwardFormula ==
    LET M  == frame.household_mapr_annual
        ci == frame.countable_income_annual
        dm == frame.deductible_medical_annual
        A  == frame.va_award_annual
    IN  /\ 0 <= A /\ A <= M
        /\ A = (IF ci <= dm THEN M ELSE IF ci - dm >= M THEN 0 ELSE M - (ci - dm))

\* C8 witness: income exceeds deductible medical by less than the ceiling,
\* so the award lies strictly between 0 and the ceiling.
C8_Witness ==
    /\ frame.countable_income_annual > frame.deductible_medical_annual
    /\ frame.deductible_medical_annual > 0
    /\ 0 < frame.va_award_annual
    /\ frame.va_award_annual < frame.household_mapr_annual

C10_Attribution ==
    (~frame.override_a /\ ~frame.override_b)
    => LET ra == Rank(frame.cat_a)
           rb == Rank(frame.cat_b)
           full == money(frame.va_award_monthly)
       IN  /\ WinningRank = 1
                => /\ frame.va_a = MoneyQ(frame.va_award_monthly, 2)
                   /\ frame.va_b = frame.va_a
           /\ (1 < WinningRank /\ ra < rb) => (frame.va_a = full /\ frame.va_b = 0)
           /\ (1 < WinningRank /\ rb < ra) => (frame.va_b = full /\ frame.va_a = 0)
           /\ (1 < WinningRank /\ ra = rb)
                => <<frame.va_a, frame.va_b>> \in {<<full, 0>>, <<0, full>>}

\* C28: with no manual override, va_a + va_b never exceeds
\* va_household_mapr_monthly, to the cent; this includes the "Two veterans
\* married" case, where each half of the award is rounded half-up on its own.
C28_AwardsWithinCeiling ==
    (~frame.override_a /\ ~frame.override_b)
        => results.va_a + results.va_b <= results.va_household_mapr_monthly

\* C28 witness: two veterans with a monthly award of an odd number of
\* cents: both halves are rounded up, so the two amounts add up to one cent
\* more than the award, and still to no more than the ceiling.
C28_Witness ==
    /\ ~frame.override_a /\ ~frame.override_b
    /\ WinningRank = 1
    /\ results.va_a = results.va_b
    /\ results.va_a + results.va_b = frame.va_award_monthly + 10
    /\ results.va_a + results.va_b <= results.va_household_mapr_monthly

\* C11: a manual override flagged for one person only leaves the other
\* person's VA amount at the value the category / means-test assignment
\* gives that person when nobody overrides.
C11_OverrideOnePerson ==
    LET auto == va_assign(frame.cat_a, frame.cat_b, frame.va_award_monthly, None, None)
    IN  /\ (frame.override_a /\ ~frame.override_b) => frame.va_b = auto[2]
        /\ (frame.override_b /\ ~frame.override_a) => frame.va_a = auto[1]

\* C20: when neither person has a VA category ("None", or never chosen),
\* the household ceiling is 0 and the computed award is 0, whatever the
\* income, the medical costs and the care costs are.
C20_NoCategoryNoAward ==
    (frame.cat_a = CatNone /\ frame.cat_b = CatNone)
    => /\ results.va_household_mapr_monthly = 0
       /\ frame.household_mapr_annual = 0
       /\ frame.va_award_annual = 0
       /\ frame.va_award_monthly = 0
       /\ (~frame.override_a /\ ~frame.override_b) => (results.va_a = 0 /\ results.va_b = 0)

\* C20 witness: both persons chose "None" on step 3; the household has
\* income and larger deductible medical costs (care included), and the
\* ceiling and the award are 0.
C20_Witness ==
    /\ Get(session, "va_category_person_a", <<>>) = CatNone
    /\ Get(session, "va_category_person_b", <<>>) = CatNone
    /\ frame.countable_income_annual > 0
    /\ frame.deductible_medical_annual > frame.countable_income_annual
    /\ frame.care_cost > 0
    /\ results.va_household_mapr_monthly = 0
    /\ frame.va_award_annual = 0
    /\ results.va_a = 0 /\ results.va_b = 0

----------------------------------------------------------------------------
(* SpecCost: the care plans of step 2.  A plan that holds the location and *)
(* possibly a share_one_unit answer is loaded; the user picks care types   *)
(* and room types for both persons.                                        *)

CostPlans ==
    {st @@ sh : st \in {EmptyMap, ("state" :> "Washington")},
                sh \in {EmptyMap, ("share_one_unit" :> TRUE), ("share_one_unit" :> FALSE)}}

InitCost ==
    \E plan \in CostPlans, ib \in BOOLEAN :
        Loaded(plan, load_spec(RawSpec(EmptyMap, EmptyMap)), ("include_b" :> ib))

NextCost ==
    \/ \E p \in Persons, care \in {StayAtHome, InHomeCare, AssistedLiving, MemoryCare} :
          SelectCareType(p, care)
    \/ \E p \in Persons, room \in DOMAIN BaseLookups.room_type : SelectRoomType(p, room)

SpecCost == InitCost /\ [][NextCost]_vars

\* C2: the shared-unit discount is nonzero if and only if both persons
\* have a facility care type and the share-one-unit flag is set; with the
\* flag off or absent, care_cost is the plain sum of the per-person costs.
C2_DiscountGated ==
    LET bothFacility == /\ Get(inputs, "care_type_person_a", PyNone) \in FacilityTypes
                        /\ Get(inputs, "care_type_person_b", PyNone) \in FacilityTypes
        share == Get(inputs, "share_one_unit", FALSE)
    IN  /\ (frame.discount # 0) <=> (bothFacility /\ share)
        /\ ~share => results.care_cost = frame.cost_a + frame.cost_b

\* C22: a facility person's cost is room-type price + care-level adder +
\* facility mobility adder + chronic adder, times the memory-care
\* multiplier exactly once for Memory Care and not at all for Assisted
\* Living, times the region multiplier once, rounded to the cent.
C22_FacilityFormula ==
    \A p \in Persons :
        LET care == Get(inputs, "care_type_person_" \o p, PyNone)
            base == Get(spec.lookups.room_type,
                        Get(inputs, "room_type_person_" \o p, PyNone), 0)
                    + Get(spec.lookups.care_level_adders,
                          Get(inputs, "care_level_person_" \o p, "Medium"), 0)
                    + Get(spec.lookups.mobility_adders.facility,
                          Get(inputs, "mobility_person_" \o p, "Medium"), 0)
                    + Get(spec.lookups.chronic_adders,
                          Get(inputs, "chronic_person_" \o p, "None"), 0)
            region == IF Get(inputs, "state", "National") = "Washington"
                        THEN [n |-> 23, d |-> 20] ELSE One
            cost == IF p = "a" THEN frame.cost_a ELSE frame.cost_b
        IN  /\ care = AssistedLiving => cost = MoneyQ(base * region.n, region.d)
            /\ care = MemoryCare => cost = MoneyQ(base * 5 * region.n, 4 * region.d)

\* C22 witness: Person A in Memory Care in a studio in Washington, medium
\* care level and mobility: (4000 + 500 + 250) * 1.25 * 1.15 = 6828.125,
\* rounded to 6828.13.
C22_Witness ==
    /\ Get(inputs, "care_type_person_a", PyNone) = MemoryCare
    /\ Get(inputs, "room_type_person_a", PyNone) = "Studio"
    /\ Get(inputs, "state", "National") = "Washington"
    /\ frame.cost_a = Dollars(6828) + 130

----------------------------------------------------------------------------
(* SpecRunway: cost, income, assets and the funded years.  The session     *)
(* starts with no answers; the user edits three currency fields of step 3. *)

MaxCostSteps == 2

MaxRunwayIncomeSteps == 2

MaxAssetSteps == 2

\* optional_other: multiples of $2,500
CostChoices == {k * Dollars(2500) : k \in 0..MaxCostSteps}

\* social_security_person_a: multiples of $1,500
RunwayIncomeChoices == {k * Dollars(1500) : k \in 0..MaxRunwayIncomeSteps}

\* cash_savings: multiples of $15,000.005, and three round balances
AssetChoices ==
    {k * (Dollars(15000) + 5) : k \in 0..MaxAssetSteps}
    \cup {Dollars(30000), Dollars(360000), Dollars(1000000)}

\* settings of the rate file: none, or a display cap of 20 years
RunwaySettings == {EmptyMap, ("display_cap_years_funded" :> 20)}

InitRunway ==
    \E settings \in RunwaySettings :
        Loaded(EmptyMap, load_spec(RawSpec(EmptyMap, settings)), ("include_b" :> FALSE))

NextRunway ==
    \/ \E v \in CostChoices : SetCurrency("optional_other", v)
    \/ \E v \in RunwayIncomeChoices : SetCurrency("social_security_person_a", v)
    \/ \E v \in AssetChoices : SetCurrency("cash_savings", v)

SpecRunway == InitRunway /\ [][NextRunway]_vars

\* C3: the monthly_gap of the ResultRecord is never negative.
C3_GapNonNegative == results.monthly_gap >= 0

\* C4: when the monthly gap is positive, years_funded_cap30 is the number
\* total_assets / (monthly_gap * 12) clamped to [0, cap]: a number for every
\* asset total (0 for no assets), the exact quotient below the cap.
C4_ExactYears ==
    results.monthly_gap > 0
    => /\ results.years_funded_cap30 # None
       /\ LET y == results.years_funded_cap30[1]
              den == results.monthly_gap * 12
          IN  IF results.total_assets >= frame.years_cap * den
                THEN y = frame.years_cap
                ELSE y * den = results.total_assets

\* C5: years_funded_cap30 never exceeds the display cap: with cost 5000 and
\* income 3000 it is 15 for assets 360000 and the cap for assets 1,000,000.
C5_YearsCapped ==
    LET y == results.years_funded_cap30
        example == /\ results.monthly_cost = Dollars(5000)
                   /\ results.household_income = Dollars(3000)
    IN  /\ y # None => y[1] <= years_cap(spec)
        /\ (example /\ results.total_assets = Dollars(360000)) => y = Some(15)
        /\ (example /\ results.total_assets = Dollars(1000000)) => y = Some(years_cap(spec))

\* C5 witness: cost 5000, income 3000, assets 1,000,000 under the default
\* cap: the quotient is 41 and the record holds 30.
C5_Witness ==
    /\ results.monthly_gap = Dollars(2000)
    /\ results.total_assets = Dollars(1000000)
    /\ results.total_assets \div (results.monthly_gap * 12) = 41
    /\ years_cap(spec) = DefaultYearsCap
    /\ results.years_funded_cap30 = Some(30)

----------------------------------------------------------------------------
(* Step 1 and the plan upload of the sidebar *)

KeepHome == "Keep living in the home (don't tap equity)"

SellHome == "Sell the home (use net proceeds)"

UseHECM == "Use reverse mortgage (HECM)"

UseHELOC == "Consider a HELOC (home equity line)"

HomePlanOptions == {KeepHome, SellHome, UseHECM, UseHELOC}

\* The options of the location selectbox: the keys of state_multipliers.
LocationOptions ==
    DOMAIN Get(Get(spec, "lookups", EmptyMap), "state_multipliers", ("National" :> One))

\* What one run of step 1 writes into inputs.  The location selectbox and
\* the home-plan radio hold the values the session keeps for them (their
\* first options, "National" and "Keep living in the home", before any
\* choice); the three sale inputs start from the stored answers.
step1_run(inp, sess) ==
    LET home_plan == Get(sess, "home_plan", KeepHome)
        flags == ("state" :> Get(sess, "sel_state", "National"))
                 @@ ("maintain_home_household" :> (home_plan = KeepHome))
                 @@ ("home_to_assets" :> (home_plan = SellHome))
                 @@ ("expect_hecm" :> (home_plan = UseHECM))
                 @@ ("expect_heloc" :> (home_plan = UseHELOC))
        sell_price == Get(inp, "sell_price", 0)
        mortgage_payoff == Get(inp, "mortgage_payoff", 0)
        fees == Get(inp, "selling_fees", 0)
        net == Max(0, sell_price - mortgage_payoff - fees)
        sale == ("sell_price" :> sell_price) @@ ("mortgage_payoff" :> mortgage_payoff)
                @@ ("selling_fees" :> fees) @@ ("home_equity" :> net)
    IN  IF home_plan = SellHome THEN sale @@ flags @@ inp ELSE flags @@ inp

\* Sidebar, "Load a saved plan": st.session_state.inputs = json.loads(...)
\* and st.rerun(); the run that follows renders step 1 over the loaded plan.
\* The uploader is not drawn when the preview is empty.
LoadPlan(plan) ==
    /\ DOMAIN results # {}
    /\ session' = session
    /\ inputs' = step1_run(plan, session')
    /\ Rerun

\* Step 1: the location selectbox.
SelectLocation(state) ==
    /\ state \in LocationOptions
    /\ session' = ("sel_state" :> state) @@ session
    /\ inputs' = step1_run(inputs, session')
    /\ Rerun

\* Step 1: the home-plan radio.
SelectHomePlan(home_plan) ==
    /\ home_plan \in HomePlanOptions
    /\ session' = ("home_plan" :> home_plan) @@ session
    /\ inputs' = step1_run(inputs, session')
    /\ Rerun

----------------------------------------------------------------------------
(* SpecPlan: a session on step 1 into which plan files are loaded.  A plan *)
(* file is any JSON object: an answer may be missing, well-formed, of an   *)
(* unknown category, null, or text where a number is expected.             *)

AnswerKinds == {"absent", "good", "unknown", "null", "text", "number"}

\* The entry of a plan file for one answer, by the kind of its value.
PlanEntry(key, kind, good, unknown) ==
    CASE kind = "absent"  -> EmptyMap
      [] kind = "good"    -> (key :> good)
      [] kind = "unknown" -> (key :> unknown)
      [] kind = "null"    -> (key :> PyNone)
      [] kind = "text"    -> (key :> "n/a")
      [] kind = "number"  -> (key :> 1)

PlanFile(care, care_kind, level_kind, room_kind, cash_kind) ==
    PlanEntry("care_type_person_a", care_kind, care, care)
    @@ PlanEntry("care_level_person_a", level_kind, "High", "Extreme")
    @@ PlanEntry("room_type_person_a", room_kind, "Studio", "Penthouse")
    @@ PlanEntry("cash_savings", cash_kind, Dollars(30000) + 5, 0)

InitPlan ==
    Loaded(step1_run(EmptyMap, ("include_b" :> FALSE)),
           load_spec(RawSpec(EmptyMap, EmptyMap)),
           ("include_b" :> FALSE))

NextPlan ==
    \/ \E care \in {InHomeCare, AssistedLiving},
          care_kind \in {"absent", "good", "number"},
          level_kind \in {"absent", "good", "unknown"},
          room_kind \in {"absent", "good", "unknown"},
          cash_kind \in {"absent", "good", "null", "text"} :
          LoadPlan(PlanFile(care, care_kind, level_kind, room_kind, cash_kind))
    \/ \E state \in DOMAIN BaseLookups.state_multipliers : SelectLocation(state)

SpecPlan == InitPlan /\ [][NextPlan]_vars

\* C12: compute_results never raises: for every AnswerMap, also one whose
\* numeric answers are missing, None or unparseable text and whose
\* categorical answers are unknown or not strings, the call returns a
\* ResultRecord.
C12_NeverRaises == ~frame.raised /\ "monthly_cost" \in DOMAIN results

\* dict without key k
Without(m, k) == [x \in DOMAIN m \ {k} |-> m[x]]

\* The answer under key is present and is not a key of the lookup table.
Unrecognized(key, table) == key \in DOMAIN inputs /\ inputs[key] \notin DOMAIN table

\* C15: an unrecognized value of a categorical answer (care level, mobility,
\* chronic tier, room type, location) gives the same per-person cost as
\* the AnswerMap without that key.
C15_UnknownAsAbsent ==
    ~frame.raised
    => \A p \in Persons :
         LET same(key) == per_person_cost(p, inputs, spec)
                            = per_person_cost(p, Without(inputs, key), spec)
             mob == lookup(spec, "mobility_adders")
         IN  /\ Unrecognized("care_level_person_" \o p, lookup(spec, "care_level_adders"))
                  => same("care_level_person_" \o p)
             /\ Unrecognized("mobility_person_" \o p,
                             Get(mob, "facility", EmptyMap) @@ Get(mob, "in_home", EmptyMap))
                  => same("mobility_person_" \o p)
             /\ Unrecognized("chronic_person_" \o p, lookup(spec, "chronic_adders"))
                  => same("chronic_person_" \o p)
             /\ Unrecognized("room_type_person_" \o p, lookup(spec, "room_type"))
                  => same("room_type_person_" \o p)
             /\ Unrecognized("state", lookup(spec, "state_multipliers")) => same("state")

----------------------------------------------------------------------------
(* SpecHours: an in-home care plan for Person A on step 2; the user moves  *)
(* the hours and the days sliders.  The rate file has one of two in-home   *)
(* rate curves, both non-decreasing.                                       *)

\* The hours slider: st.slider(..., 0, 24, hours_val, 1)
HoursRange == 0..24

\* Positions of the days slider (0..31) that the model visits.
DayChoices == {0, 15, 20, 31}

\* In-home rate curves: hours per day -> daily rate.
RateCurves ==
    { BaseLookups.in_home_care_matrix,
      (4 :> Dollars(30)) @@ (8 :> Dollars(55)) @@ (12 :> Dollars(70)) }

\* The rate file with the given in-home rate curve.
WithCurve(raw, curve) ==
    [raw EXCEPT !.lookups = ("in_home_care_matrix" :> curve) @@ @]

\* Step 2: the hours slider of a person with in-home care.
SetHours(p, h) ==
    /\ Rendered(p)
    /\ StartsWithInHomeCare(CurrentCare(inputs, p))
    /\ h \in HoursRange
    /\ inputs' = ("hours_per_day_person_" \o p :> h)
                 @@ step2_run(inputs, CurrentCare(inputs, "a"), CurrentCare(inputs, "b"))
    /\ session' = session
    /\ Rerun

\* Step 2: the days slider of a person with in-home care.
SetDays(p, d) ==
    /\ Rendered(p)
    /\ StartsWithInHomeCare(CurrentCare(inputs, p))
    /\ d \in 0..31
    /\ inputs' = ("days_per_month_person_" \o p :> d)
                 @@ step2_run(inputs, CurrentCare(inputs, "a"), CurrentCare(inputs, "b"))
    /\ session' = session
    /\ Rerun

InitHours ==
    \E curve \in RateCurves :
        Loaded(("care_type_person_a" :> InHomeCare),
               load_spec(WithCurve(RawSpec(EmptyMap, EmptyMap), curve)),
               ("include_b" :> FALSE))

NextHours ==
    \/ \E h \in HoursRange : SetHours("a", h)
    \/ \E d \in DayChoices : SetDays("a", d)

SpecHours == InitHours /\ [][NextHours]_vars

\* C13: with every other answer fixed, Person A's in-home care cost does
\* not decrease when the hours-per-day answer increases, anywhere in 0..24.
C13_MonotoneHours ==
    [][ ( /\ "hours_per_day_person_a" \in DOMAIN inputs
          /\ "hours_per_day_person_a" \in DOMAIN inputs'
          /\ Without(inputs', "hours_per_day_person_a")
               = Without(inputs, "hours_per_day_person_a")
          /\ inputs'["hours_per_day_person_a"] >= inputs["hours_per_day_person_a"] )
        => frame'.cost_a >= frame.cost_a ]_vars

\* The hours per_person_cost hands to interp_in_home_daily for Person A.
HoursUsed == ClampedIntAnswer(inputs, "hours_per_day_person_a", 4, 24)

\* C14: interp_in_home_daily is the piecewise-linear function of the curve:
\* the sample at a curve key, the lowest-key sample below every key, the
\* highest-key sample above every key, and the linear interpolation between
\* the nearest lower and upper keys otherwise.
C14_PiecewiseLinear ==
    LET curve == lookup(spec, "in_home_care_matrix")
        keys  == DOMAIN curve
        h     == HoursUsed
        r     == interp_in_home_daily(h, curve)
        lower == {k \in keys : k < h}
        upper == {k \in keys : k > h}
        lo    == CHOOSE k \in lower : \A j \in lower : j <= k
        hi    == CHOOSE k \in upper : \A j \in upper : j >= k
        first == CHOOSE k \in keys : \A j \in keys : k <= j
        last  == CHOOSE k \in keys : \A j \in keys : k >= j
    IN  /\ h \in keys => r.n = curve[h] * r.d
        /\ (h \notin keys /\ lower = {}) => r.n = curve[first] * r.d
        /\ (h \notin keys /\ upper = {}) => r.n = curve[last] * r.d
        /\ (h \notin keys /\ lower # {} /\ upper # {})
             => r.n * (hi - lo)
                  = r.d * (curve[lo] * (hi - lo) + (h - lo) * (curve[hi] - curve[lo]))

\* C14 witness: 5 hours on the curve 4 -> 30, 8 -> 55: the daily rate is
\* 36.25, strictly between the two samples, and the month is billed on it.
C14_Witness ==
    LET curve == lookup(spec, "in_home_care_matrix")
        r == interp_in_home_daily(HoursUsed, curve)
    IN  /\ inputs["care_type_person_a"] = InHomeCare
        /\ "hours_per_day_person_a" \in DOMAIN inputs
        /\ inputs["hours_per_day_person_a"] = 5
        /\ 8 \in DOMAIN curve /\ curve[8] = Dollars(55)
        /\ r.n = (Dollars(36) + 250) * r.d
        /\ Get(inputs, "days_per_month_person_a", 20) = 20
        /\ frame.cost_a = 20 * (Dollars(36) + 250 + Dollars(10))

----------------------------------------------------------------------------
(* SpecHome: a session on step 1.  Plan files with a care plan for both     *)
(* persons, home-carry bills, optional costs, balances and one-time home    *)
(* modifications are loaded, and the user works the home-plan radio.        *)

\* A plan file holds the answers m, or does not.
Opt(m) == {EmptyMap, m}

\* Both persons in Assisted Living, A in a studio and B in a shared room.
PlanCare ==
    ("care_type_person_a" :> AssistedLiving) @@ ("room_type_person_a" :> "Studio")
    @@ ("care_type_person_b" :> AssistedLiving) @@ ("room_type_person_b" :> "Shared")

PlanBills == ("mortgage" :> Dollars(1500) + 5) @@ ("utilities" :> Dollars(250))

HomePlanFiles ==
    { care @@ bills @@ optional @@ equity @@ cash @@ mods :
        care \in Opt(PlanCare),
        bills \in Opt(PlanBills),
        optional \in Opt(("optional_other" :> Dollars(300) + 4)),
        equity \in Opt(("home_equity" :> Dollars(200000))),
        cash \in Opt(("cash_savings" :> Dollars(30000))),
        mods \in Opt(("home_mods_one_time_total" :> Dollars(5000))) }

InitHome ==
    Loaded(step1_run(EmptyMap, ("include_b" :> FALSE)),
           load_spec(RawSpec(EmptyMap, EmptyMap)),
           ("include_b" :> FALSE))

NextHome ==
    \/ \E plan \in HomePlanFiles : LoadPlan(plan)
    \/ \E home_plan \in HomePlanOptions : SelectHomePlan(home_plan)

SpecHome == InitHome /\ [][NextHome]_vars

\* C16: home_sum is the sum of mortgage, taxes, insurance, hoa and utilities
\* when maintain_home_household is truthy and exactly 0 otherwise, whatever
\* the five answers hold; monthly_cost then has no home-carry amount in it.
C16_HomeCarryGated ==
    IF Get(inputs, "maintain_home_household", FALSE)
      THEN results.home_sum
             = money(Get(inputs, "mortgage", 0) + Get(inputs, "taxes", 0)
                     + Get(inputs, "insurance", 0) + Get(inputs, "hoa", 0)
                     + Get(inputs, "utilities", 0))
      ELSE /\ results.home_sum = 0
           /\ results.monthly_cost = results.care_cost + results.optional_sum

\* C16 witness: the home is being sold, the plan still holds a mortgage and
\* utilities, and home_sum is 0: the monthly cost is care plus optional.
C16_Witness ==
    /\ inputs["maintain_home_household"] = FALSE
    /\ Get(inputs, "mortgage", 0) > 0 /\ Get(inputs, "utilities", 0) > 0
    /\ results.home_sum = 0
    /\ results.care_cost > 0 /\ results.optional_sum > 0
    /\ results.monthly_cost = results.care_cost + results.optional_sum

\* C17: monthly_cost = care_cost + home_sum + optional_sum in every
\* ResultRecord, care_cost being both per-person costs less the
\* shared-unit discount.
C17_MonthlyCostSum ==
    /\ results.monthly_cost = results.care_cost + results.home_sum + results.optional_sum
    /\ results.care_cost = frame.cost_a + frame.cost_b - frame.discount

\* C17 witness: two persons in care with a discount, home-carry bills that
\* round up to the cent (1750.005 -> 1750.01) and optional costs that
\* round down (300.004 -> 300.00).
C17_Witness ==
    /\ frame.cost_a > 0 /\ frame.cost_b > 0 /\ frame.discount > 0
    /\ results.home_sum = Dollars(1750) + 10
    /\ results.optional_sum = Dollars(300)
    /\ results.monthly_cost
         = frame.cost_a + frame.cost_b - frame.discount + Dollars(2050) + 10

\* C18: total_assets is the sum of the account balances, plus home_equity
\* only when home_to_assets says the home is monetized, minus
\* home_mods_one_time_total, floored at 0.
C18_TotalAssets ==
    LET accounts == Get(inputs, "other_assets", 0) + Get(inputs, "cash_savings", 0)
                    + Get(inputs, "ira_total", 0)
                    + Get(inputs, "employer_retirement_total", 0)
                    + Get(inputs, "brokerage_taxable", 0)
                    + Get(inputs, "other_assets_grouped", 0)
        equity == IF Get(inputs, "home_to_assets", FALSE)
                    THEN Get(inputs, "home_equity", 0) ELSE 0
        committed == Get(inputs, "home_mods_one_time_total", 0)
    IN  results.total_assets = Max(0, money(accounts + equity - committed))

----------------------------------------------------------------------------
(* calculator_engine.py: compute(spec, inputs), the engine as a library    *)
(* function.  It reads settings and lookups with spec["..."], so a rate    *)
(* file that lacks a key it needs makes it raise KeyError.                 *)

\* per_person_cost(person) of compute.  str(hours) is looked up in the
\* in-home table as a key: an exact match or 0, no interpolation.
engine_per_person_cost(person, spec_, inputs_) ==
    LET settings == spec_["settings"]
        lookups  == spec_["lookups"]
        care_type  == Get(inputs_, "care_type_person_" \o person, PyNone)
        care_level == Get(inputs_, "care_level_person_" \o person, PyNone)
        mobility   == Get(inputs_, "mobility_person_" \o person, PyNone)
        chronic    == Get(inputs_, "chronic_person_" \o person, PyNone)
        care_level_add == Get(lookups["care_level_adders"], care_level, 0)
        mobility_fac   == Get(lookups["mobility_adders"]["facility"], mobility, 0)
        mobility_home  == Get(lookups["mobility_adders"]["in_home"], mobility, 0)
        chronic_add    == Get(lookups["chronic_adders"], chronic, 0)
    IN  IF care_type = InHomeCare
          THEN LET hours  == Get(inputs_, "hours_per_day_person_" \o person, 0)
                   hourly == Get(lookups["in_home_care_matrix"], hours, 0)
               IN  money(hourly * settings["days_per_month"] + mobility_home + chronic_add)
        ELSE IF care_type \in FacilityTypes
          THEN LET base_room == Get(lookups["room_type"],
                                    Get(inputs_, "room_type_person_" \o person, PyNone), 0)
                   mm == IF care_type = MemoryCare
                           THEN settings["memory_care_multiplier"] ELSE One
               IN  MoneyQ(base_room * mm.n
                          + (care_level_add + mobility_fac + chronic_add) * mm.d, mm.d)
        ELSE 0

\* shared_unit_adjustment() of compute
shared_unit_adjustment(spec_, inputs_) ==
    LET a_type == Get(inputs_, "care_type_person_a", PyNone)
        b_type == Get(inputs_, "care_type_person_b", PyNone)
    IN  IF ~(Get(inputs_, "person_a_in_care", FALSE) /\ Get(inputs_, "person_b_in_care", FALSE))
          THEN 0
        ELSE IF ~Get(inputs_, "share_one_unit", FALSE) THEN 0
        ELSE IF a_type \in FacilityTypes /\ b_type \in FacilityTypes
          THEN LET room_base_b == Get(spec_["lookups"]["room_type"],
                                      Get(inputs_, "room_type_person_b", PyNone), 0)
                   mm == IF b_type = MemoryCare
                           THEN spec_["settings"]["memory_care_multiplier"] ELSE One
               IN  MoneyQ(room_base_b * mm.n - spec_["settings"]["second_person_cost"] * mm.d,
                          mm.d)
        ELSE 0

engine_optional_fields ==
    <<"optional_rx", "optional_personal_care", "optional_phone_internet",
      "optional_life_insurance", "optional_transportation", "optional_family_travel",
      "optional_auto", "optional_auto_insurance", "optional_other">>

\* round(total_assets / (monthly_gap * 12), 2), in hundredths of a year:
\* the quotient digit by digit, a tie going to the even hundredth.
engine_years_funded(total_assets_, monthly_gap_) ==
    LET D  == monthly_gap_ * 12
        q  == total_assets_ \div D
        r  == total_assets_ % D
        t1 == (r * 10) \div D
        r1 == (r * 10) % D
        t2 == (r1 * 10) \div D
        r2 == (r1 * 10) % D
        h  == q * 100 + t1 * 10 + t2
    IN  IF 2 * r2 > D \/ (2 * r2 = D /\ h % 2 = 1) THEN h + 1 ELSE h

\* The dict compute(spec, inputs) returns.  years_funded_cap30 is in
\* hundredths of a year.
compute(spec_, inputs_) ==
    LET settings == spec_["settings"]
        a_selected == IF Get(inputs_, "person_a_in_care", FALSE)
                        THEN engine_per_person_cost("a", spec_, inputs_) ELSE 0
        b_selected == IF Get(inputs_, "person_b_in_care", FALSE)
                        THEN engine_per_person_cost("b", spec_, inputs_) ELSE 0
        care_cost_total == money(a_selected + b_selected
                                 - shared_unit_adjustment(spec_, inputs_))
        optional_sum_ == SumKeys(inputs_, engine_optional_fields)
        home_sum_ == SumKeys(inputs_, HomeFields)
        house_cost_total == IF Get(inputs_, "maintain_home_household", FALSE)
                              THEN home_sum_ ELSE 0
        va_total == Get(inputs_, "va_benefit_person_a", 0)
                    + Get(inputs_, "va_benefit_person_b", 0)
        ltc_total_ ==
            (IF Get(inputs_, "ltc_insurance_person_a", PyNone) = "Yes"
               THEN settings["ltc_monthly_add"] ELSE 0)
            + (IF Get(inputs_, "ltc_insurance_person_b", PyNone) = "Yes"
                 THEN settings["ltc_monthly_add"] ELSE 0)
        household_income_ ==
            Get(inputs_, "social_security_person_a", 0)
            + Get(inputs_, "social_security_person_b", 0)
            + Get(inputs_, "pension_person_a", 0) + Get(inputs_, "pension_person_b", 0)
            + Get(inputs_, "re_investment_income", 0) + va_total + ltc_total_
        monthly_cost_full == care_cost_total + house_cost_total + optional_sum_
        monthly_gap_ == Max(0, monthly_cost_full - household_income_)
        total_assets_ == Get(inputs_, "home_equity", 0) + Get(inputs_, "other_assets", 0)
        cap == settings["display_cap_years_funded"]
        display_years ==
            IF monthly_gap_ <= 0 THEN cap * 100
            ELSE IF total_assets_ \div (monthly_gap_ * 12) >= cap THEN cap * 100
            ELSE engine_years_funded(total_assets_, monthly_gap_)
    IN  [ care_cost_total |-> money(care_cost_total),
          monthly_cost |-> money(monthly_cost_full),
          household_income |-> money(household_income_),
          monthly_gap |-> money(monthly_gap_),
          total_assets |-> money(total_assets_),
          years_funded_cap30 |-> Some(display_years) ]

\* compute(spec, inputs) raises KeyError: the rate file lacks a section,
\* a table or a setting that the call reads.
compute_raises(spec_, inputs_) ==
    LET care(p) == Get(inputs_, "care_type_person_" \o p, PyNone)
        called  == {p \in {"a", "b"} : Get(inputs_, "person_" \o p \o "_in_care", FALSE)}
        adjusts == /\ called = {"a", "b"}
                   /\ Get(inputs_, "share_one_unit", FALSE)
                   /\ care("a") \in FacilityTypes /\ care("b") \in FacilityTypes
        tables  == (IF called # {}
                      THEN {"care_level_adders", "mobility_adders", "chronic_adders"} ELSE {})
                   \cup (IF \E p \in called : care(p) = InHomeCare
                           THEN {"in_home_care_matrix"} ELSE {})
                   \cup (IF adjusts \/ \E p \in called : care(p) \in FacilityTypes
                           THEN {"room_type"} ELSE {})
        needed  == {"display_cap_years_funded"}
                   \cup (IF \E p \in called : care(p) = InHomeCare
                           THEN {"days_per_month"} ELSE {})
                   \cup (IF \/ \E p \in called : care(p) = MemoryCare
                            \/ (adjusts /\ care("b") = MemoryCare)
                           THEN {"memory_care_multiplier"} ELSE {})
                   \cup (IF adjusts THEN {"second_person_cost"} ELSE {})
                   \cup (IF \E p \in {"a", "b"} :
                              Get(inputs_, "ltc_insurance_person_" \o p, PyNone) = "Yes"
                           THEN {"ltc_monthly_add"} ELSE {})
    IN  \/ ~({"settings", "lookups"} \subseteq DOMAIN spec_)
        \/ ~(tables \subseteq DOMAIN spec_["lookups"])
        \/ ("mobility_adders" \in tables
            /\ ~({"facility", "in_home"} \subseteq DOMAIN spec_["lookups"]["mobility_adders"]))
        \/ ~(needed \subseteq DOMAIN spec_["settings"])

\* The two argument dicts when compute returns: like compute_results it
\* only reads them (base_room *= ... rebinds a local number).
compute_args_at_return(spec_, inputs_) == <<spec_, inputs_>>

\* A caller hands the session's rate file and answers to compute.
CallCompute ==
    /\ inputs' = inputs
    /\ download' = download
    /\ session' = session
    /\ spec' = spec
    /\ IF compute_raises(spec, inputs)
         THEN /\ frame' = [raised |-> TRUE]
              /\ results' = EmptyMap
         ELSE /\ frame' = [raised |-> FALSE,
                           spec |-> compute_args_at_return(spec, inputs)[1],
                           inputs |-> compute_args_at_return(spec, inputs)[2]]
              /\ results' = compute(spec, inputs)

----------------------------------------------------------------------------
(* SpecEngine: both engines on the same arguments.  Plan files are loaded  *)
(* into a session on step 1 (every run ends with compute_results), and a   *)
(* caller hands the session's dicts to compute.                            *)

\* settings of a rate file that has every key compute reads
EngineSettings ==
    [ days_per_month |-> 30,
      memory_care_multiplier |-> [n |-> 5, d |-> 4],
      second_person_cost |-> Dollars(1200),
      ltc_monthly_add |-> Dollars(1800),
      display_cap_years_funded |-> 30 ]

\* Person A with four hours of in-home care a day
PlanInHome ==
    ("care_type_person_a" :> InHomeCare) @@ ("person_a_in_care" :> TRUE)
    @@ ("hours_per_day_person_a" :> 4) @@ ("mobility_person_a" :> "High")

\* Both persons in a facility, sharing one unit
PlanShared ==
    PlanCare @@ ("person_a_in_care" :> TRUE) @@ ("person_b_in_care" :> TRUE)
    @@ ("share_one_unit" :> TRUE)

EnginePlanFiles ==
    { care @@ bills @@ optional @@ equity @@ income :
        care \in {EmptyMap, PlanInHome, PlanShared},
        bills \in Opt(PlanBills),
        optional \in Opt(("optional_other" :> Dollars(300) + 4)),
        equity \in Opt(("home_equity" :> Dollars(200000))),
        income \in Opt(("social_security_person_a" :> Dollars(1500))) }

InitEngine ==
    \E settings \in {EmptyMap, EngineSettings} :
        Loaded(step1_run(EmptyMap, ("include_b" :> FALSE)),
               load_spec(RawSpec(EmptyMap, settings)),
               ("include_b" :> FALSE))

NextEngine ==
    \/ \E plan \in EnginePlanFiles : LoadPlan(plan)
    \/ CallCompute

SpecEngine == InitEngine /\ [][NextEngine]_vars

----------------------------------------------------------------------------
(* calculator_engine.apply_ui_group_answers: grouped answers flattened     *)
(* into an answer map.  A Python str is handled through its characters, so *)
(* that float(), strip() and lower() are computed and not assumed.         *)

\* the characters of the str values that occur as answers
StrChars ==
    ("1500.5" :> <<"1", "5", "0", "0", ".", "5">>)
    @@ (" 250 " :> <<" ", "2", "5", "0", " ">>)
    @@ ("1,500" :> <<"1", ",", "5", "0", "0">>)
    @@ ("n/a" :> <<"n", "/", "a">>)
    @@ (" YES " :> <<" ", "Y", "E", "S", " ">>)
    @@ ("No" :> <<"N", "o">>)

\* isinstance tests, made on the value's printed form
IsNone(v) == ToString(v) = ToString(PyNone)
IsBool(v) == ToString(v) \in {ToString(b) : b \in BOOLEAN}
IsStr(v) == ToString(v) \in {ToString(t) : t \in DOMAIN StrChars}

DigitValue ==
    ("0" :> 0) @@ ("1" :> 1) @@ ("2" :> 2) @@ ("3" :> 3) @@ ("4" :> 4)
    @@ ("5" :> 5) @@ ("6" :> 6) @@ ("7" :> 7) @@ ("8" :> 8) @@ ("9" :> 9)

RECURSIVE lstrip(_)
lstrip(cs) == IF Len(cs) > 0 /\ Head(cs) = " " THEN lstrip(Tail(cs)) ELSE cs

RECURSIVE rstrip(_)
rstrip(cs) ==
    IF Len(cs) > 0 /\ cs[Len(cs)] = " "
      THEN rstrip(SubSeq(cs, 1, Len(cs) - 1)) ELSE cs

\* str.strip()
strip(cs) == rstrip(lstrip(cs))

\* str.lower(), on the letters that occur
lower(cs) ==
    LET low == ("Y" :> "y") @@ ("E" :> "e") @@ ("S" :> "s") @@ ("N" :> "n")
               @@ ("O" :> "o") @@ ("T" :> "t") @@ ("R" :> "r") @@ ("U" :> "u")
    IN  [i \in 1..Len(cs) |-> Get(low, cs[i], cs[i])]

\* the number a run of decimal digits denotes
RECURSIVE DigitsValue(_)
DigitsValue(ds) ==
    IF Len(ds) = 0 THEN 0
    ELSE DigitsValue(SubSeq(ds, 1, Len(ds) - 1)) * 10 + DigitValue[ds[Len(ds)]]

\* float(str): surrounding blanks are dropped, then an optional sign, digits
\* and at most one decimal point are read; anything else is a ValueError.
\* The result is None for the error, else Some of the value (in mills).
float_of_str(cs) ==
    LET body == strip(cs)
        signed == Len(body) > 0 /\ body[1] \in {"+", "-"}
        digits == IF signed THEN Tail(body) ELSE body
        dots == {i \in 1..Len(digits) : digits[i] = "."}
        point == IF dots = {} THEN Len(digits) + 1
                 ELSE CHOOSE i \in dots : TRUE
        whole == SubSeq(digits, 1, point - 1)
        frac == SubSeq(digits, point + 1, Len(digits))
        frac3 == SubSeq(frac \o <<"0", "0", "0">>, 1, 3)
        valid == /\ \A i \in 1..Len(digits) : digits[i] \in DOMAIN DigitValue \cup {"."}
                 /\ Cardinality(dots) <= 1
                 /\ Len(whole) + Len(frac) > 0
        magnitude == DigitsValue(whole) * 1000 + DigitsValue(frac3)
    IN  IF ~valid THEN None
        ELSE Some(IF signed /\ body[1] = "-" THEN 0 - magnitude ELSE magnitude)

\* float(value): None is a TypeError, a str is parsed, a bool is 1.0 or 0.0
float_of(value) ==
    IF IsNone(value) THEN None
    ELSE IF IsBool(value) THEN Some(IF value THEN Dollars(1) ELSE 0)
    ELSE IF IsStr(value) THEN float_of_str(StrChars[value])
    ELSE Some(value)

\* str(value).strip().lower() in truthy if not isinstance(value, bool) else value
is_true(value) ==
    IF IsBool(value) THEN value
    ELSE IF IsNone(value) THEN FALSE
    ELSE IF IsStr(value)
      THEN lower(strip(StrChars[value]))
             \in {<<"y", "e", "s">>, <<"y">>, <<"t", "r", "u", "e">>, <<"1">>}
    ELSE value = Dollars(1)

\* Mutant of field_fallback: the except branch stores the default and never
\* looks at skip_value.
field_fallback_default(f) == Get(f, "default", 0)

\* the except branch: f.get("skip_value", default)
field_fallback(f) == Get(f, "skip_value", Get(f, "default", 0))

\* the answer read for one field: by label first, else by field name, else
\* the default
raw_val(f, answers) ==
    LET by_label == Get(answers, Get(f, "label", f["field"]), PyNone)
    IN  IF IsNone(by_label)
          THEN Get(answers, f["field"], Get(f, "default", 0))
          ELSE by_label

\* the try statement for one field: the value flat[field_name] ends up with
field_value(f, answers) ==
    LET kind == Get(f, "kind", "currency")
        value == raw_val(f, answers)
    IN  CASE kind = "currency" ->
               IF float_of(value) = None THEN field_fallback(f)
               ELSE float_of(value)[1]
          [] kind = "boolean" ->
               IF is_true(value) THEN Get(f, "true_value", "Yes")
               ELSE Get(f, "false_value", "No")
          [] OTHER -> value

\* the inner loop over a group's fields
RECURSIVE apply_fields(_, _, _)
apply_fields(fields, answers, flat) ==
    IF Len(fields) = 0 THEN flat
    ELSE apply_fields(Tail(fields), answers,
                      (Head(fields)["field"] :> field_value(Head(fields), answers))
                      @@ flat)

\* groups = {g["id"]: g for g in groups_cfg}; groups.get(gid)
group_by_id(groups_cfg, gid) ==
    LET hits == {i \in 1..Len(groups_cfg) : groups_cfg[i]["id"] = gid}
    IN  IF hits = {} THEN None
        ELSE Some(groups_cfg[CHOOSE i \in hits : \A j \in hits : j <= i])

\* a group is passed over when it is not configured or its condition fails
group_skipped(cfg, flat) ==
    \/ cfg = None
    \/ /\ "condition" \in DOMAIN cfg[1]
       /\ ToString(Get(flat, cfg[1]["condition"].field, PyNone))
            # ToString(cfg[1]["condition"].equals)

\* the outer loop over grouped_answers.items(), in the dict's order
RECURSIVE apply_groups(_, _, _)
apply_groups(items, groups_cfg, flat) ==
    IF Len(items) = 0 THEN flat
    ELSE LET gid == Head(items)[1]
             answers == Head(items)[2]
             cfg == group_by_id(groups_cfg, gid)
         IN  apply_groups(Tail(items), groups_cfg,
                          IF group_skipped(cfg, flat) THEN flat
                          ELSE apply_fields(Get(cfg[1], "fields", <<>>),
                                            answers, flat))

\* apply_ui_group_answers(groups_cfg, grouped_answers, existing_fields):
\* the dict it returns, and existing_fields as the caller finds it after the
\* call (flat is a copy, so nothing is written through)
apply_ui_group_answers(groups_cfg, grouped_answers, existing_fields) ==
    [ flat |-> apply_groups(grouped_answers, groups_cfg,
                            IF IsNone(existing_fields) THEN EmptyMap
                            ELSE existing_fields),
      existing_fields |-> existing_fields ]

\* A caller flattens grouped answers over the session's answers.
ApplyGroupAnswers(grouped_answers) ==
    LET call == apply_ui_group_answers(Get(spec, "ui_groups", <<>>),
                                       grouped_answers, inputs)
    IN  /\ results' = call.flat
        /\ frame' = [raised |-> FALSE,
                     grouped_answers |-> grouped_answers,
                     existing_fields |-> call.existing_fields]
        /\ UNCHANGED <<inputs, spec, session, download>>

----------------------------------------------------------------------------
(* SpecGroups: grouped answers of every kind flattened over a session's    *)
(* answers, with the home plan (the home-carry group's condition) varying. *)

\* ui_groups of a rate file: an income group (second field with neither
\* label nor kind, and with a skip_value), a conditional home group and a
\* group with a boolean field
UiGroups ==
    << ("id" :> "group_income_individual")
       @@ ("fields" :>
            << ("field" :> "social_security_person_a")
               @@ ("label" :> "Social Security") @@ ("kind" :> "currency")
               @@ ("default" :> 0),
               ("field" :> "pension_person_a")
               @@ ("default" :> Dollars(500)) @@ ("skip_value" :> 0) >>),
       ("id" :> "group_home_carry")
       @@ ("condition" :> [field |-> "maintain_home_household", equals |-> TRUE])
       @@ ("fields" :>
            << ("field" :> "mortgage") @@ ("kind" :> "currency")
               @@ ("default" :> 0) >>),
       ("id" :> "group_benefits")
       @@ ("fields" :>
            << ("field" :> "ltc_insurance_person_a") @@ ("kind" :> "boolean")
               @@ ("default" :> "No") >>) >>

GroupAnswerKinds == {"absent", "number", "numeral", "padded", "comma", "text", "null"}

\* one answer of a group, by kind; a null answer is stored under the label
\* and under the field name
GroupAnswer(label, field_name, kind, number) ==
    CASE kind = "absent" -> EmptyMap
      [] kind = "number" -> (label :> number)
      [] kind = "numeral" -> (label :> "1500.5")
      [] kind = "padded" -> (label :> " 250 ")
      [] kind = "comma" -> (label :> "1,500")
      [] kind = "text" -> (label :> "n/a")
      [] kind = "null" -> (label :> PyNone) @@ (field_name :> PyNone)
      [] kind = "yes" -> (label :> " YES ")
      [] kind = "no" -> (label :> "No")
      [] kind = "true" -> (label :> TRUE)

GroupedAnswers(legacy, ss_kind, pension_kind, mortgage_kind, ltc_kind) ==
    (IF legacy THEN << <<"group_legacy", ("mortgage" :> Dollars(1))>> >> ELSE <<>>)
    \o << <<"group_income_individual",
            GroupAnswer("Social Security", "social_security_person_a",
                        ss_kind, Dollars(1500) + 5)
            @@ GroupAnswer("pension_person_a", "pension_person_a",
                           pension_kind, Dollars(800))>>,
          <<"group_home_carry",
            GroupAnswer("mortgage", "mortgage", mortgage_kind, Dollars(1200))>>,
          <<"group_benefits",
            GroupAnswer("ltc_insurance_person_a", "ltc_insurance_person_a",
                        ltc_kind, 0)>> >>

InitGroups ==
    Loaded(step1_run(("social_security_person_a" :> Dollars(900)),
                     ("include_b" :> FALSE)),
           load_spec(("ui_groups" :> UiGroups) @@ RawSpec(EmptyMap, EmptyMap)),
           ("include_b" :> FALSE))

NextGroups ==
    \/ \E home_plan \in {KeepHome, SellHome} : SelectHomePlan(home_plan)
    \/ \E legacy \in BOOLEAN, ss_kind \in GroupAnswerKinds,
          pension_kind \in {"absent", "number", "text"},
          mortgage_kind \in {"number", "text"},
          ltc_kind \in {"absent", "yes", "no", "true"} :
            ApplyGroupAnswers(GroupedAnswers(legacy, ss_kind, pension_kind,
                                             mortgage_kind, ltc_kind))

SpecGroups == InitGroups /\ [][NextGroups]_vars

\* the answers handed in for one group in the last call
AnswersFor(gid) ==
    LET hits == {i \in 1..Len(frame.grouped_answers) :
                    frame.grouped_answers[i][1] = gid}
    IN  frame.grouped_answers[CHOOSE i \in hits : TRUE][2]

\* an answer float() rejects: JSON null, or text that is no numeral
Unconvertible(answers, key) ==
    /\ key \in DOMAIN answers
    /\ ToString(answers[key])
         \in {ToString(PyNone), ToString("n/a"), ToString("1,500")}

\* C23: apply_ui_group_answers never propagates a conversion error: a
\* currency field whose raw answer cannot be converted gets the field's
\* fallback (skip_value if configured, else default), the fields and groups
\* after it are still processed, and existing_fields is left as it was.
C23_ConversionErrorsHandled ==
    "grouped_answers" \in DOMAIN frame =>
        LET income == AnswersFor("group_income_individual")
            home == AnswersFor("group_home_carry")
        IN  /\ ~frame.raised
            /\ frame.existing_fields = inputs
            /\ Unconvertible(income, "Social Security")
                 => results["social_security_person_a"] = 0
            /\ Unconvertible(income, "pension_person_a")
                 => results["pension_person_a"] = 0
            /\ ~Unconvertible(income, "pension_person_a")
                 => results["pension_person_a"]
                      = Get(income, "pension_person_a", Dollars(500))
            /\ (inputs["maintain_home_household"] /\ Unconvertible(home, "mortgage"))
                 => results["mortgage"] = 0
            /\ results["ltc_insurance_person_a"] \in {"Yes", "No"}

\* C23 witness: Social Security answered "n/a" and the pension answered
\* "n/a" in one call, on top of a stored Social Security of 900: both fields
\* fall back to 0, the benefits group after them is still flattened, and the
\* stored answers still say 900.
C23_Witness ==
    /\ "grouped_answers" \in DOMAIN frame
    /\ ToString(Get(AnswersFor("group_income_individual"), "Social Security", 0))
         = ToString("n/a")
    /\ ToString(Get(AnswersFor("group_income_individual"), "pension_person_a", 0))
         = ToString("n/a")
    /\ results["social_security_person_a"] = 0
    /\ results["pension_person_a"] = 0
    /\ results["ltc_insurance_person_a"] = "Yes"
    /\ inputs["social_security_person_a"] = Dollars(900)

----------------------------------------------------------------------------
(* The wizard: st.session_state.step and the buttons that move it.  A      *)
(* widget that is not rendered in a run loses its state, so a step that is *)
(* entered again starts from the index= and value= arguments of its        *)
(* widgets.  name_hint (display names only) is left out of the session.    *)

WhoOptions ==
    << "I'm planning for myself",
       "I'm planning for my spouse/partner",
       "I'm planning for my parent/parent-in-law",
       "I'm planning for a couple (both parents/partners)",
       "I'm planning for a relative or POA",
       "I'm planning for a friend or someone else" >>

WhoMyself == WhoOptions[1]

WhoSpouse == WhoOptions[2]

WhoParent == WhoOptions[3]

WhoCouple == WhoOptions[4]

\* the "Include ... for household costs" checkbox of a branch of the radio
IncludeCheckbox(who) ==
    CASE who = WhoSpouse -> "chk_include_you"
      [] who = WhoParent -> "chk_include_other_parent"
      [] who \in {WhoMyself, WhoCouple} -> PyNone
      [] OTHER -> "chk_include_spouse_other"

\* the text input for the second person's name that include_b depends on
SecondNameInput(who) ==
    CASE who = WhoParent -> "name_parent_b"
      [] who \in {WhoMyself, WhoSpouse, WhoCouple} -> PyNone
      [] OTHER -> "name_other_b"

BranchWidgetKeys ==
    {"chk_include_you", "chk_include_other_parent", "chk_include_spouse_other",
     "name_parent_b", "name_other_b"}

Step1WidgetKeys == {"sel_state", "home_plan"} \cup BranchWidgetKeys

DropKeys(m, keys) == [k \in DOMAIN m \ keys |-> m[k]]

\* bool((b_name or "").strip())
name_given(b_name) == b_name \notin {"", " "}

\* Step 1, "Who are we planning for?": what one run writes into the session
\* for the option the radio holds.  The widgets of the other branches are
\* not rendered.
step1_who(sess) ==
    LET who_idx == Get(sess, "who_idx", 0)
        who == WhoOptions[who_idx + 1]
        checked == Get(sess, IncludeCheckbox(who), who \in {WhoSpouse, WhoParent})
        named == name_given(Get(sess, SecondNameInput(who), ""))
        include_b == CASE who = WhoMyself -> FALSE
                       [] who = WhoSpouse -> checked
                       [] who = WhoParent -> checked /\ named
                       [] who = WhoCouple -> TRUE
                       [] OTHER -> checked /\ named
    IN  ("who_idx" :> who_idx)
        @@ ("audience_spouse_mode" :> (who = WhoSpouse))
        @@ ("audience_parent_second_mode" :> (who = WhoParent))
        @@ ("include_b" :> include_b)
        @@ DropKeys(sess, BranchWidgetKeys
                          \ {IncludeCheckbox(who), SecondNameInput(who)})

\* st.session_state after the first run of a new session
FreshSession == step1_who(("step" :> 1))

AtStep(n) == "step" \in DOMAIN session /\ session["step"] = n

\* sidebar_summary returns before the Save or Load expander when the
\* preview is empty
SidebarShown == DOMAIN results # {}

\* Step 1: the who radio.
SelectWho(who_idx) ==
    /\ AtStep(1)
    /\ who_idx \in 0..(Len(WhoOptions) - 1)
    /\ session' = step1_who(("who_idx" :> who_idx) @@ session)
    /\ inputs' = step1_run(inputs, session')
    /\ Rerun

\* Step 1: the include checkbox of the selected branch.
SetIncludeSecond(on) ==
    LET chk == IncludeCheckbox(WhoOptions[Get(session, "who_idx", 0) + 1])
    IN  /\ AtStep(1)
        /\ chk # PyNone
        /\ session' = step1_who((chk :> on) @@ session)
        /\ inputs' = step1_run(inputs, session')
        /\ Rerun

\* Step 1: the second person's name of the selected branch.
EnterSecondName(b_name) ==
    LET name == SecondNameInput(WhoOptions[Get(session, "who_idx", 0) + 1])
    IN  /\ AtStep(1)
        /\ name # PyNone
        /\ session' = step1_who((name :> b_name) @@ session)
        /\ inputs' = step1_run(inputs, session')
        /\ Rerun

SaleFields == {"sell_price", "mortgage_payoff", "selling_fees"}

\* Step 1: a number input of the home sale estimate, on screen while the
\* home plan is "Sell the home".
EnterSaleEstimate(field, val) ==
    /\ AtStep(1)
    /\ Get(inputs, "home_to_assets", FALSE)
    /\ field \in SaleFields
    /\ val >= 0
    /\ session' = session
    /\ inputs' = step1_run((field :> val) @@ inputs, session')
    /\ Rerun

\* render_person for a person whose widgets were not on screen in the run
\* before: the care type is build_default_index's, the selectors start at
\* their defaults, the sliders at the stored hours and days.
first_render_person(inp, p) ==
    render_person(DropKeys(inp, {"care_type_person_" \o p}), p, default_care(p))

\* the first run of step 2 after another step
enter_step2(inp) ==
    LET ia == first_render_person(inp, "a")
    IN  IF Get(session, "include_b", FALSE) THEN first_render_person(ia, "b") ELSE ia

HomeModItems ==
    <<"grab_bars", "ramps", "bath_mods", "stair_lift", "widen_doors", "other_home_mods">>

\* Step 3, the home modifications drawer: every item is written back, and
\* their total.
home_mods_drawer(inp) ==
    LET items == [k \in SetOf(HomeModItems) |-> Get(inp, k, 0)]
    IN  ("home_mods_one_time_total" :> SumKeys(items, HomeModItems)) @@ items @@ inp

\* va_block on its first render: the stored category if it is one of the
\* rate file's keys, else "None"
first_va_key(sess, p) ==
    LET prev_choice == Get(sess, "va_category_person_" \o p, CatNone)
    IN  IF prev_choice \in DOMAIN lookup(spec, "va_categories")
          THEN prev_choice ELSE CatNone

\* the first run of step 3 after another step: the session it leaves
enter_step3_session(sess) ==
    va_blocks(sess,
              first_va_key(sess, "a"), Get(sess, "va_override_person_a", FALSE),
              first_va_key(sess, "b"), Get(sess, "va_override_person_b", FALSE))

\* one run of step 3 over the answers inp: the manual VA amounts of the
\* persons whose override is on, and the home modifications drawer
step3_run(inp, sess) ==
    LET amount(p) ==
            IF /\ Get(sess, "va_override_person_" \o p, FALSE)
               /\ (p = "a" \/ Get(sess, "include_b", FALSE))
              THEN ("va_benefit_person_" \o p :> Get(inp, "va_benefit_person_" \o p, 0))
              ELSE EmptyMap
    IN  home_mods_drawer(amount("a") @@ amount("b") @@ inp)

\* Step 1: "Continue".
ContinueToCare ==
    /\ AtStep(1)
    /\ session' = ("step" :> 2) @@ DropKeys(session, Step1WidgetKeys)
    /\ inputs' = enter_step2(inputs)
    /\ Rerun

\* Step 2: "Back".
BackToWho ==
    /\ AtStep(2)
    /\ session' = step1_who(("step" :> 1) @@ session)
    /\ inputs' = step1_run(inputs, session')
    /\ Rerun

\* Step 2: "Continue to finances".
ContinueToFinances ==
    /\ AtStep(2)
    /\ session' = enter_step3_session(("step" :> 3) @@ session)
    /\ inputs' = step3_run(inputs, session')
    /\ Rerun

\* Step 3: "Back".
BackToCare ==
    /\ AtStep(3)
    /\ session' = ("step" :> 2) @@ session
    /\ inputs' = enter_step2(inputs)
    /\ Rerun

\* Step 3: "Calculate".
Calculate ==
    /\ AtStep(3)
    /\ session' = ("step" :> 4) @@ session
    /\ inputs' = inputs
    /\ Rerun

\* Step 4 calls compute_results outside any try: when it raises, the run
\* ends before the buttons are drawn.
ResultsShown == AtStep(4) /\ DOMAIN results # {}

\* Step 4: "Back".
BackToFinances ==
    /\ ResultsShown
    /\ session' = enter_step3_session(("step" :> 3) @@ session)
    /\ inputs' = step3_run(inputs, session')
    /\ Rerun

\* Mutant of StartOver: the step is put back to 1 and nothing is cleared.
StartOver_step_only ==
    /\ ResultsShown
    /\ session' = ("step" :> 1) @@ session
    /\ inputs' = step1_run(inputs, session')
    /\ Rerun

\* Step 4: "Start over": the session is cleared, step is set to 1, and the
\* run that follows initialises the session again.
StartOver ==
    /\ ResultsShown
    /\ session' = FreshSession
    /\ inputs' = step1_run(EmptyMap, session')
    /\ Rerun

\* the answers of step 2's selectboxes, which keep their state over a load
Step2WidgetFields ==
    {f \o p : f \in {"care_type_person_", "care_level_person_", "mobility_person_",
                     "chronic_person_", "room_type_person_"},
              p \in {q \in Persons : Rendered(q)}}

\* Sidebar: a plan file is uploaded (and taken out of the uploader again).
\* inputs is replaced by the file's content, and the run that follows
\* renders the current step over it.
UploadPlan(plan) ==
    /\ "step" \in DOMAIN session
    /\ SidebarShown
    /\ session' = session
    /\ inputs' =
         CASE AtStep(1) -> step1_run(plan, session)
           [] AtStep(2) ->
                step2_run([k \in Step2WidgetFields \cap DOMAIN inputs |-> inputs[k]]
                          @@ plan,
                          CurrentCare(inputs, "a"), CurrentCare(inputs, "b"))
           [] AtStep(3) -> step3_run(plan, session)
           [] OTHER -> plan
    /\ Rerun

----------------------------------------------------------------------------
(* SpecWizard: a session walked through the four steps, with the who radio *)
(* of step 1, Start over and plan uploads.                                 *)

\* a plan with both persons in assisted living, and one whose cash answer
\* is not a number
WizardPlans ==
    { ("care_type_person_a" :> AssistedLiving) @@ ("room_type_person_a" :> "Studio")
      @@ ("care_type_person_b" :> AssistedLiving) @@ ("room_type_person_b" :> "Shared"),
      ("cash_savings" :> "n/a") }

InitWizard ==
    Loaded(step1_run(EmptyMap, FreshSession),
           load_spec(RawSpec(EmptyMap, EmptyMap)),
           FreshSession)

NextWizard ==
    \/ \E who_idx \in {0, 1, 3} : SelectWho(who_idx)
    \/ ContinueToCare
    \/ BackToWho
    \/ ContinueToFinances
    \/ BackToCare
    \/ Calculate
    \/ BackToFinances
    \/ StartOver
    \/ \E plan \in WizardPlans : UploadPlan(plan)

SpecWizard == InitWizard /\ [][NextWizard]_vars

\* C24: whenever include_b is false, Person B contributes nothing to the
\* care cost: care_cost is Person A's cost alone and there is no shared-unit
\* discount, also when Person B's answers were stored on an earlier visit
\* of step 2.
C24_PersonBExcluded ==
    (~session["include_b"] /\ ~frame.raised)
        => (results.care_cost = frame.cost_a /\ frame.discount = 0)

\* C27: the step is always one of 1..4; a button moves it one up (Continue,
\* Calculate) or one down (Back), except Start over, which puts it at 1 and
\* leaves the session of a new visit with no answers; step 4 is entered
\* from step 3 only; loading a plan leaves the step alone.
C27_StepMoves ==
    [][ /\ session["step"] \in 1..4
        /\ session'["step"] \in 1..4
        /\ session'["step"] # session["step"]
             => \/ session'["step"] = session["step"] + 1
                \/ session'["step"] = session["step"] - 1
                \/ /\ session["step"] = 4
                   /\ session'["step"] = 1
                   /\ session' = FreshSession
                   /\ inputs' = step1_run(EmptyMap, FreshSession)
        /\ session'["step"] = 4 => session["step"] \in {3, 4}
        /\ (\E plan \in WizardPlans : UploadPlan(plan))
             => session'["step"] = session["step"] ]_vars

\* C27 witness: the results page, reached button by button from step 1 with
\* Person B included and staying at home (the spouse branch of the radio
\* and the care type step 2 starts Person B with).
C27_Witness ==
    /\ session["step"] = 4
    /\ DOMAIN results # {}
    /\ session["include_b"]
    /\ Get(inputs, "care_type_person_b", PyNone) = StayAtHome

----------------------------------------------------------------------------
(* SpecSale: step 1 with the who radio and its branches, the home plan     *)
(* radio and the home sale estimate.                                       *)

SalePriceChoices == {0, Dollars(300000), Dollars(450000) + 5}

SaleCostChoices == {0, Dollars(20000), Dollars(120000)}

NextSale ==
    \/ \E who_idx \in 0..5 : SelectWho(who_idx)
    \/ \E on \in BOOLEAN : SetIncludeSecond(on)
    \/ \E b_name \in {"", "Sam"} : EnterSecondName(b_name)
    \/ \E home_plan \in HomePlanOptions : SelectHomePlan(home_plan)
    \/ \E val \in SalePriceChoices : EnterSaleEstimate("sell_price", val)
    \/ \E field \in {"mortgage_payoff", "selling_fees"}, val \in SaleCostChoices :
          EnterSaleEstimate(field, val)

SpecSale == InitWizard /\ [][NextSale]_vars

\* C25: home equity is part of total_assets only while the home plan is
\* "Sell the home": under every other home plan total_assets is the account
\* balances alone, so switching away from "Sell the home" takes the net
\* proceeds out again.
C25_EquityOnlyWhileSelling ==
    Get(session, "home_plan", KeepHome) # SellHome
        => results.total_assets
             = money(Get(inputs, "other_assets", 0) + Get(inputs, "cash_savings", 0)
                     + Get(inputs, "ira_total", 0)
                     + Get(inputs, "employer_retirement_total", 0)
                     + Get(inputs, "brokerage_taxable", 0)
                     + Get(inputs, "other_assets_grouped", 0))

----------------------------------------------------------------------------
(* Saving and loading a plan.  json.dumps writes every answer as a JSON    *)
(* token and json.loads reads the tokens back; numbers go through their    *)
(* decimal digits (in the unit the answer map keeps them in).              *)

\* the str answers the widgets of the wizard write
JsonStrings ==
    {"National", "Washington", "None", "Low", "Medium", "High", "Some",
     "Multiple/Complex", "Studio", "1 Bedroom", "Shared", "Yes", "No",
     StayAtHome, InHomeCare, AssistedLiving, MemoryCare}

DigitChars == <<"0", "1", "2", "3", "4", "5", "6", "7", "8", "9">>

\* the decimal digits of a natural number
RECURSIVE FormatDigits(_)
FormatDigits(n) ==
    IF n < 10 THEN <<DigitChars[n + 1]>>
    ELSE FormatDigits(n \div 10) \o <<DigitChars[(n % 10) + 1]>>

\* json.dumps of one value
json_token(v) ==
    IF IsBool(v) THEN [kind |-> "literal", text |-> IF v THEN "true" ELSE "false"]
    ELSE IF IsNone(v) THEN [kind |-> "literal", text |-> "null"]
    ELSE IF ToString(v) \in {ToString(t) : t \in JsonStrings}
      THEN [kind |-> "string", text |-> v]
    ELSE [kind |-> "number",
          text |-> (IF v < 0 THEN <<"-">> ELSE <<>>) \o FormatDigits(Abs(v))]

\* json.dumps(st.session_state.get("inputs", {}))
json_dumps(m) == [k \in DOMAIN m |-> json_token(m[k])]

\* json.loads of one token
json_value(token) ==
    IF token.kind = "number"
      THEN IF Head(token.text) = "-" THEN 0 - DigitsValue(Tail(token.text))
           ELSE DigitsValue(token.text)
    ELSE IF token.kind = "string" THEN token.text
    ELSE IF token.text = "true" THEN TRUE
    ELSE IF token.text = "false" THEN FALSE
    ELSE PyNone

\* json.loads(up.getvalue().decode("utf-8"))
json_loads(text) == [k \in DOMAIN text |-> json_value(text[k])]

\* Sidebar: "Prepare download".
PrepareDownload ==
    /\ "step" \in DOMAIN session
    /\ SidebarShown
    /\ session' = ("_download_plan" :> json_dumps(inputs)) @@ session
    /\ inputs' = inputs
    /\ Rerun

\* Sidebar: the download button, on screen once a plan was prepared.  The
\* file lands on the user's disk; with it the model keeps the ResultRecord
\* on screen at that moment, and whether the file holds the answers on
\* screen or older ones.
DownloadPlan ==
    /\ "step" \in DOMAIN session
    /\ SidebarShown
    /\ "_download_plan" \in DOMAIN session
    /\ download' = Some([plan |-> session["_download_plan"],
                         shown |-> results,
                         current |-> session["_download_plan"] = json_dumps(inputs)])
    /\ session' = session
    /\ inputs' = inputs
    /\ Recompute

\* Sidebar: the saved file is uploaded.
UploadSaved ==
    /\ download # None
    /\ UploadPlan(json_loads(download[1].plan))

----------------------------------------------------------------------------
(* SpecSave: a visit through the four steps with a VA category chosen on   *)
(* step 3, the plan saved, Start over, and the saved plan loaded.          *)

NextSave ==
    \/ ContinueToCare
    \/ ContinueToFinances
    \/ \E key \in {CatNone, CatVetOnly} : AtStep(3) /\ SelectVaCategory("a", key)
    \/ Calculate
    \/ BackToFinances
    \/ StartOver
    \/ PrepareDownload
    \/ DownloadPlan
    \/ UploadSaved

SpecSave == InitWizard /\ [][NextSave]_vars

\* C26: a plan saved with "Prepare download" and loaded into a fresh
\* session (after "Start over") shows the ResultRecord that was on screen
\* when it was saved, va_a, va_b and household_income included.
C26_SaveLoadRoundTrip ==
    [][ (UploadSaved /\ session = FreshSession /\ download[1].current)
            => results' = download[1].shown ]_vars

\* C21: an in-home person's cost is (daily rate interpolated at the chosen
\* hours + in-home mobility adder + chronic adder) x the chosen days per
\* month x the region multiplier, for all hours 0..24 and days 0..31; so
\* 0 days cost 0.
C21_InHomeFormula ==
    ( /\ Get(inputs, "care_type_person_a", PyNone) = InHomeCare
      /\ "hours_per_day_person_a" \in DOMAIN inputs
      /\ "days_per_month_person_a" \in DOMAIN inputs )
    => LET daily == interp_in_home_daily(inputs["hours_per_day_person_a"],
                                         lookup(spec, "in_home_care_matrix"))
           adders == Get(spec.lookups.mobility_adders.in_home,
                         Get(inputs, "mobility_person_a", "Medium"), 0)
                     + Get(spec.lookups.chronic_adders,
                           Get(inputs, "chronic_person_a", "None"), 0)
           days == inputs["days_per_month_person_a"]
           sm == state_mult(inputs, spec)
       IN  /\ frame.cost_a = MoneyQ((daily.n + adders * daily.d) * days * sm.n,
                                    daily.d * sm.d)
           /\ days = 0 => frame.cost_a = 0

====
